---- MODULE Spec2Model ----
(***************************************************************************)
(* Model of the Remnawave API client of remna-admin-bot:                   *)
(*   src/modules/api/client.py  RemnaAPI._make_request, _test_connection,  *)
(*                              _unwrap_response_payload                   *)
(* One call of _make_request is a process whose positions are its await    *)
(* points (preflight GET, main HTTP request, asyncio.sleep).  The backend  *)
(* is the environment: every request is answered by one outcome drawn from *)
(* a finite set of responses and raised exceptions.                        *)
(***************************************************************************)
EXTENDS Integers, Sequences, FiniteSets, TLC

(* ------------------------------ bounds -------------------------------- *)

\* largest attempt budget (retry_count) a call is started with
MaxRetryCount == 6

\* how far below zero the attempt budgets of the modelled calls reach
NegativeBudgets == 1

\* smallest attempt budget a call is started with (range() of it is empty)
MinRetryCount == 0 - NegativeBudgets

(* ------------------------------ helpers ------------------------------- *)

Min(a, b) == IF a <= b THEN a ELSE b

Max(a, b) == IF a >= b THEN a ELSE b

RECURSIVE Pow2(_)
Pow2(n) == IF n <= 0 THEN 1 ELSE 2 * Pow2(n - 1)

(* --------------------------- JSON payloads ---------------------------- *)

\* keys an envelope object may carry ("users" stands for any other key)
Keys == {"response", "data", "success", "error", "users"}

\* the values a key may hold in the modelled envelopes
FieldVals(k) ==
  CASE k = "response" -> {"null", "str"}
    [] k = "data"     -> {"null", "str"}
    [] k = "success"  -> {"false", "true", "null"}
    [] k = "error"    -> {"str"}
    [] OTHER          -> {"list"}

AllVals == UNION {FieldVals(k) : k \in Keys}

NoFields == [k \in {} |-> "null"]

\* a JSON value that is not an object (None, bool, string, list)
Atom(a) == [kind |-> "atom", val |-> a, fields |-> NoFields]

\* a JSON object with the given key -> value map
Object(f) == [kind |-> "object", val |-> "-", fields |-> f]

\* Python None / JSON null
None == Atom("null")

ObjectFields ==
  UNION { {f \in [D -> AllVals] : \A k \in D : f[k] \in FieldVals(k)} :
          D \in SUBSET Keys }

Payloads == {Atom(a) : a \in {"null", "false", "str", "list"}}
            \cup {Object(f) : f \in ObjectFields}

\* payload.get(k): the value of key k, None when the key is absent
Get(payload, k) ==
  IF k \in DOMAIN payload.fields THEN Atom(payload.fields[k]) ELSE None

\* the envelope rule with `data` tested before `response`
UnwrapDataFirst(payload) ==
  IF payload.kind # "object" THEN payload
  ELSE IF "data" \in DOMAIN payload.fields THEN Get(payload, "data")
  ELSE IF "response" \in DOMAIN payload.fields THEN Get(payload, "response")
  ELSE IF Get(payload, "success") = Atom("false")
          /\ "error" \in DOMAIN payload.fields THEN None
  ELSE payload

\* RemnaAPI._unwrap_response_payload
_unwrap_response_payload(payload) ==
  IF payload.kind # "object" THEN payload
  ELSE IF "response" \in DOMAIN payload.fields THEN Get(payload, "response")
  ELSE IF "data" \in DOMAIN payload.fields THEN Get(payload, "data")
  ELSE IF Get(payload, "success") = Atom("false")
          /\ "error" \in DOMAIN payload.fields THEN None
  ELSE payload

(* ------------------------ httpx exception classes --------------------- *)

\* the exception classes the model raises or catches, with their base class
\* (httpx._exceptions; json.JSONDecodeError is a ValueError)
Parent(cls) ==
  CASE cls = "ConnectError"        -> "NetworkError"
    [] cls = "NetworkError"        -> "TransportError"
    [] cls = "ConnectTimeout"      -> "TimeoutException"
    [] cls = "ReadTimeout"         -> "TimeoutException"
    [] cls = "WriteTimeout"        -> "TimeoutException"
    [] cls = "TimeoutException"    -> "TransportError"
    [] cls = "RemoteProtocolError" -> "ProtocolError"
    [] cls = "ProtocolError"       -> "TransportError"
    [] cls = "TransportError"      -> "RequestError"
    [] cls = "RequestError"        -> "HTTPError"
    [] cls = "HTTPStatusError"     -> "HTTPError"
    [] cls = "HTTPError"           -> "Exception"
    [] cls = "JSONDecodeError"     -> "ValueError"
    [] cls = "ValueError"          -> "Exception"
    [] cls = "RuntimeError"        -> "Exception"
    [] OTHER                       -> "BaseException"

RECURSIVE IsInstance(_, _)
\* isinstance(exc, cls) for an exception of class exc
IsInstance(exc, cls) ==
  IF exc = cls THEN TRUE
  ELSE IF exc = "BaseException" THEN FALSE
  ELSE IsInstance(Parent(exc), cls)

\* the except clauses without the final catch-all
ExceptClausesNoCatchAll ==
  << "ConnectError", "TimeoutException", "HTTPStatusError",
     "RemoteProtocolError", "ConnectTimeout", "ReadTimeout" >>

\* the except clauses of _make_request, in source order
ExceptClauses ==
  << "ConnectError", "TimeoutException", "HTTPStatusError",
     "RemoteProtocolError", "ConnectTimeout", "ReadTimeout", "Exception" >>

\* the clause that catches exc: the first one in source order whose class exc
\* is an instance of; "" when no clause catches it
Handler(exc) ==
  LET hits == {i \in 1..Len(ExceptClauses) : IsInstance(exc, ExceptClauses[i])}
  IN IF hits = {} THEN ""
     ELSE ExceptClauses[CHOOSE i \in hits : \A j \in hits : i <= j]

(* --------------------------- retry arithmetic ------------------------- *)

\* loop condition with an off-by-one
InRangeInclusive(attempt, retry_count) == attempt >= 0 /\ attempt <= retry_count

\* `for attempt in range(retry_count)`: the loop body runs for this attempt
InRange(attempt, retry_count) == attempt >= 0 /\ attempt < retry_count

\* every failure taken to leave a further attempt
CanRetryAlways(attempt, retry_count) == TRUE

\* a sleep after every attempt, the last one included
CanRetryEvenLast(attempt, retry_count) == attempt < retry_count

\* `attempt < retry_count - 1`: a further attempt remains
CanRetry(attempt, retry_count) == attempt < retry_count - 1

\* backoff doubling from 2 instead of 1
BackoffFromTwo(attempt) == Pow2(attempt + 1)

\* `2 ** attempt`
Backoff(attempt) == Pow2(attempt)

\* the timeout backoff without its cap
TimeoutBackoffUncapped(attempt) == Pow2(attempt)

\* `min(2 ** attempt, 10)` of the TimeoutException clause
TimeoutBackoff(attempt) == Min(Pow2(attempt), 10)

\* every error status retried
RetryableStatusAnyError(status) == status >= 400

\* `status >= 500`
RetryableStatus(status) == status >= 500

\* 205 not treated as "no content"
NoContentStatusOnly204(status) == status = 204

\* `response.status_code in (204, 205)`
NoContentStatus(status) == status \in {204, 205}

\* the preflight run whether or not it is enabled
PreflightDueIgnoringFlag(preflight, attempt) == attempt = 0

\* the preflight run before every attempt
PreflightDueEveryAttempt(preflight, attempt) == preflight

\* `API_PREFLIGHT and attempt == 0`
PreflightDue(preflight, attempt) == preflight /\ attempt = 0

\* the fixed wait after a failed preflight
PreflightWait == 2

(* ----------------------- responses and outcomes ----------------------- *)

\* `'application/json' in content_type.lower()`
IsJsonContentType(content_type) ==
  content_type \in {"application/json", "Application/JSON; charset=utf-8"}

\* the Content-Type headers the backend answers with ("" : header absent)
ContentTypes == {"application/json", "Application/JSON; charset=utf-8",
                 "text/html", ""}

\* response bodies: blank text, text that is not JSON, or a JSON document
EmptyBody == [text |-> "blank", json |-> None]

GarbageBody == [text |-> "garbage", json |-> None]

JsonBody(payload) == [text |-> "json", json |-> payload]

\* `response.status_code >= 500` of the in-line server error test
ServerError(status) == status >= 500

\* httpx Response.is_success, the test of raise_for_status()
IsSuccess(status) == status >= 200 /\ status <= 299

\* statuses of the responses that carry an arbitrary JSON document
OkStatuses == {200}

\* the other statuses the backend answers with: no content, client errors and
\* server errors (1xx and 3xx answers are not modelled)
OtherStatuses == {204, 205, 400, 404, 500, 503}

NoResponse == [status |-> 0, content_type |-> "", body |-> EmptyBody]

Responses ==
  [status : OkStatuses, content_type : {"application/json"},
   body : {JsonBody(p) : p \in Payloads}]
  \cup
  [status : OkStatuses \cup OtherStatuses, content_type : ContentTypes,
   body : {EmptyBody, GarbageBody, JsonBody(Object([data |-> "str"]))}]

\* exception classes client.request() raises
TransportExceptions == {"ConnectError", "ConnectTimeout", "ReadTimeout",
                        "WriteTimeout", "RemoteProtocolError", "RuntimeError"}

\* what one main HTTP request ends in: an exception or a response
Outcomes ==
  {[exc |-> e, response |-> NoResponse] : e \in TransportExceptions}
  \cup {[exc |-> "none", response |-> r] : r \in Responses}

NoOutcome == [exc |-> "unset", response |-> NoResponse]

\* what one preflight GET ends in
PreflightOutcomes == {"200", "503", "ConnectError"}

\* RemnaAPI._test_connection: True only for a 200 answer
_test_connection(outcome) == outcome = "200"

(* ------------------- one attempt of _make_request --------------------- *)

\* what an attempt ends in: a backoff sleep, a return or a raised exception
SleepStep(w) == [kind |-> "sleep", wait |-> w, value |-> None, exc |-> "none"]

ReturnStep(v) == [kind |-> "return", wait |-> 0, value |-> v, exc |-> "none"]

RaiseStep(e) == [kind |-> "raise", wait |-> 0, value |-> None, exc |-> e]

\* the except clauses of _make_request applied to a raised exception
HandleException(exc, status, attempt, retry_count) ==
  LET clause == Handler(exc) IN
  CASE clause = "" -> RaiseStep(exc)
    [] clause = "HTTPStatusError" ->
         IF status = 404 THEN ReturnStep(None)
         ELSE IF RetryableStatus(status) /\ CanRetry(attempt, retry_count)
              THEN SleepStep(Backoff(attempt))
              ELSE ReturnStep(None)
    [] clause = "TimeoutException" ->
         IF CanRetry(attempt, retry_count)
         THEN SleepStep(TimeoutBackoff(attempt))
         ELSE ReturnStep(None)
    [] OTHER ->
         IF CanRetry(attempt, retry_count)
         THEN SleepStep(Backoff(attempt))
         ELSE ReturnStep(None)

\* the body of the `async with` block once a response has arrived
ProcessResponse(r, attempt, retry_count) ==
  IF ServerError(r.status) /\ CanRetry(attempt, retry_count)
    THEN SleepStep(Backoff(attempt))
  ELSE IF ~IsSuccess(r.status)
    THEN HandleException("HTTPStatusError", r.status, attempt, retry_count)
  ELSE IF NoContentStatus(r.status) THEN ReturnStep(None)
  ELSE IF ~IsJsonContentType(r.content_type) THEN ReturnStep(None)
  ELSE IF r.body.text = "blank" THEN ReturnStep(None)
  ELSE IF r.body.text = "garbage"
    THEN HandleException("JSONDecodeError", r.status, attempt, retry_count)
  ELSE ReturnStep(_unwrap_response_payload(r.body.json))

\* one main request of _make_request, from its outcome to the attempt's end
AttemptStep(o, attempt, retry_count) ==
  IF o.exc # "none"
  THEN HandleException(o.exc, 0, attempt, retry_count)
  ELSE ProcessResponse(o.response, attempt, retry_count)

(* -------------------- state of the other components ------------------- *)

VARIABLES
  API_TOKEN,         \* config: REMNAWAVE_API_TOKEN ("<None>" when unset)
  API_COOKIES,       \* config: the parsed cookie map
  t_pc,              \* transport: idle, or sent once a request has been built
  sent               \* transport: the request handed to httpx

tvars == << API_TOKEN, API_COOKIES, t_pc, sent >>

VARIABLES
  inbound_uuid,      \* argument of get_inbound_users
  b_inbounds,        \* backend: what get_inbounds returns
  b_profiles,        \* backend: what get_profiles returns
  b_pinb,            \* backend: the inbound list of each config profile
  b_users,           \* backend: the user list
  r_pc,              \* position of the resolver call
  r_i,               \* loop index of the loop in progress
  target,            \* the target inbound record, NoTarget when unresolved
  index,             \* profile_uuids_for_inbound
  users,             \* the fetched user list
  inbound_users,     \* the result list being built
  seen,              \* UUIDs added by the profile-users fallback
  todo,              \* profiles the profile-users fallback has yet to fetch
  calls,             \* backend calls of the resolver, in order
  r_result,          \* the list get_inbound_users returned
  r_out,             \* what the derived query returned
  b_flaky,           \* backend: any call may fail, whatever the others did
  b_down,            \* backend: the calls that fail when it is not flaky
  inflight,          \* backend calls issued and not yet returned
  run,               \* number of the get_inbound_users call in progress
  returns,           \* the lists the earlier calls returned
  parked             \* the local variables of a suspended second call

rvars == << inbound_uuid, b_inbounds, b_profiles, b_pinb, b_users, r_pc, r_i,
            target, index, users, inbound_users, seen, todo, calls, r_result,
            r_out, b_flaky, b_down, inflight, run, returns, parked >>

VARIABLES
  m_pc,              \* matching: idle, or done once the reference was tested
  m_ref,             \* matching: the inbound reference
  m_tgt,             \* matching: the resolved target record
  m_result           \* matching: what matches_inbound_ref returned

mvars == << m_pc, m_ref, m_tgt, m_result >>

VARIABLES
  o_resp,            \* online count: what get_all_users answers
  o_users,           \* online count: the user list of the backend
  o_pc,              \* online count: idle, or done once it returned
  o_count            \* online count: the number returned

ovars == << o_resp, o_users, o_pc, o_count >>

VARIABLES
  n_pc,              \* unsupported mutation: idle, or done once it returned
  n_op,              \* unsupported mutation: the operation called
  n_arg,             \* unsupported mutation: its argument
  n_result           \* unsupported mutation: what it returned

nvars == << n_pc, n_op, n_arg, n_result >>

VARIABLES
  u_pc,              \* base URL: idle, or done once normalized
  u_value,           \* base URL: the configured value
  u_url,             \* base URL: _normalize_api_base_url(value)
  u_again            \* base URL: the normalization of u_url

uvars == << u_pc, u_value, u_url, u_again >>

VARIABLES
  k_pc,              \* cookies: idle, or done once loaded
  k_raw,             \* cookies: the configured value
  k_cookies          \* cookies: _load_api_cookies(raw_value)

kvars == << k_pc, k_raw, k_cookies >>

VARIABLES
  p_pc,              \* polling: idle, loop, polling, sleeping, stopped, raised
  p_retry,           \* polling: retry_count of main()
  p_starts,          \* polling: number of run_polling calls so far
  p_waits,           \* polling: seconds of each time.sleep so far
  p_errors,          \* polling: the exceptions caught so far
  p_raised           \* polling: the exception that left main(), "none" if none

pvars == << p_pc, p_retry, p_starts, p_waits, p_errors, p_raised >>

\* the variables of the further components
xvars == << ovars, nvars, uvars, kvars, pvars >>

\* a cookie map or header map without entries
NoCookies == [k \in {} |-> ""]

\* no request has been built
NoRequest == [kind |-> "none", method |-> "", headers |-> NoCookies,
              cookies |-> NoCookies, kwargs |-> {}, json |-> FALSE]

\* the transport component at rest
TransportIdle ==
  /\ API_TOKEN = "<None>"
  /\ API_COOKIES = NoCookies
  /\ t_pc = "idle"
  /\ sent = NoRequest

\* no target inbound record
NoTarget == [kind |-> "none", uuid |-> "", tag |-> "", port |-> -1,
             listenPort |-> -1, type |-> ""]

\* reference matching at rest
MatchIdle ==
  /\ m_pc = "idle"
  /\ m_ref = NoTarget
  /\ m_tgt = NoTarget
  /\ m_result = FALSE

\* the online count at rest
OnlineIdle ==
  /\ o_resp = "none"
  /\ o_users = << >>
  /\ o_pc = "idle"
  /\ o_count = 0

\* the unsupported mutations at rest
NoOpIdle ==
  /\ n_pc = "idle"
  /\ n_op = ""
  /\ n_arg = ""
  /\ n_result = ""

\* base URL normalization at rest
UrlIdle ==
  /\ u_pc = "idle"
  /\ u_value = ""
  /\ u_url = ""
  /\ u_again = ""

\* cookie loading at rest
CookiesIdle ==
  /\ k_pc = "idle"
  /\ k_raw = ""
  /\ k_cookies = NoCookies

\* the polling supervisor at rest
PollingIdle ==
  /\ p_pc = "idle"
  /\ p_retry = 0
  /\ p_starts = 0
  /\ p_waits = << >>
  /\ p_errors = << >>
  /\ p_raised = "none"

\* the further components at rest
OthersIdle ==
  OnlineIdle /\ NoOpIdle /\ UrlIdle /\ CookiesIdle /\ PollingIdle

\* no derived query has returned
NoOutput == [query |-> "none", count |-> 0, enabled |-> 0, disabled |-> 0,
             total |-> 0]

\* no second call of get_inbound_users
NoInvocation ==
  [inbound_uuid |-> "", r_pc |-> "idle", r_i |-> 0, target |-> NoTarget,
   index |-> {}, users |-> << >>, inbound_users |-> << >>, seen |-> {},
   todo |-> {}, calls |-> << >>, r_result |-> << >>, inflight |-> << >>,
   run |-> 0]

\* the resolver at rest
ResolverIdle ==
  /\ inbound_uuid = ""
  /\ b_inbounds = << >>
  /\ b_profiles = << >>
  /\ b_pinb = << >>
  /\ b_users = << >>
  /\ r_pc = "idle"
  /\ r_i = 0
  /\ target = NoTarget
  /\ index = {}
  /\ users = << >>
  /\ inbound_users = << >>
  /\ seen = {}
  /\ todo = {}
  /\ calls = << >>
  /\ r_result = << >>
  /\ r_out = NoOutput
  /\ b_flaky = FALSE
  /\ b_down = {}
  /\ inflight = << >>
  /\ run = 0
  /\ returns = << >>
  /\ parked = NoInvocation

(* ------------------------------- state -------------------------------- *)

VARIABLES
  API_PREFLIGHT,     \* config: the preflight check is enabled
  N,                 \* backend: it answers exactly its first N main requests
                     \* with a status >= 500
  pc,                \* position of the call: idle, preflight, request, sleep, done
  retry_count,       \* the attempt budget of the call
  attempt,           \* loop variable of `for attempt in range(retry_count)`
  wait_time,         \* seconds of the asyncio.sleep in progress
  preflight_result,  \* none, ok or failed
  last,              \* outcome of the latest main request
  lead5xx,           \* main requests answered >= 500 before any other outcome
  reqlog,            \* requests sent to the backend, in order
  sleeps,            \* [after |-> attempt, wait |-> seconds] of each sleep
  result,            \* the value returned to the caller
  raised             \* the exception that reached the caller, "none" if none

evars == << API_PREFLIGHT, N, pc, retry_count, attempt, wait_time,
            preflight_result, last, lead5xx, reqlog, sleeps, result, raised >>

vars == << evars, tvars, rvars, mvars, xvars >>

\* the variables of the other components, which a step of one leaves alone
notEngine == << tvars, rvars, mvars, xvars >>

notTransport == << evars, rvars, mvars, xvars >>

notResolver == << evars, tvars, mvars, xvars >>

notMatch == << evars, tvars, rvars, xvars >>

notOnline == << evars, tvars, rvars, mvars, nvars, uvars, kvars, pvars >>

notNoOp == << evars, tvars, mvars, ovars, uvars, kvars, pvars >>

notUrl == << evars, tvars, rvars, mvars, ovars, nvars, kvars, pvars >>

notCookies == << evars, tvars, rvars, mvars, ovars, nvars, uvars, pvars >>

notPolling == << evars, tvars, rvars, mvars, ovars, nvars, uvars, kvars >>

\* number of main HTTP requests issued so far
nRequests == Cardinality({i \in 1..Len(reqlog) : reqlog[i] = "main"})

\* number of preflight GETs issued so far
nPreflights == Cardinality({i \in 1..Len(reqlog) : reqlog[i] = "preflight"})

Is5xx(o) == o.exc = "none" /\ o.response.status >= 500

Init ==
  /\ API_PREFLIGHT \in BOOLEAN
  /\ N \in 0..(MaxRetryCount + 1)
  /\ pc = "idle"
  /\ retry_count = 3
  /\ attempt = 0
  /\ wait_time = 0
  /\ preflight_result = "none"
  /\ last = NoOutcome
  /\ lead5xx = 0
  /\ reqlog = << >>
  /\ sleeps = << >>
  /\ result = None
  /\ raised = "none"
  /\ TransportIdle
  /\ ResolverIdle
  /\ MatchIdle
  /\ OthersIdle

\* the head of the for loop for loop variable a: run the body (preflight
\* first when due) or leave the loop and return None
LoopHead(a, rc) ==
  /\ attempt' = a
  /\ IF InRange(a, rc)
     THEN /\ pc' = IF PreflightDue(API_PREFLIGHT, a) THEN "preflight" ELSE "request"
          /\ result' = result
     ELSE /\ pc' = "done"
          /\ result' = None

\* a caller invokes _make_request with some attempt budget
Call ==
  /\ pc = "idle"
  /\ \E rc \in MinRetryCount..MaxRetryCount :
       /\ retry_count' = rc
       /\ LoopHead(0, rc)
  /\ UNCHANGED << API_PREFLIGHT, N, wait_time, preflight_result, last,
                  lead5xx, reqlog, sleeps, raised >>
  /\ UNCHANGED notEngine

\* the preflight GET of the first attempt and what follows its answer
Preflight ==
  /\ pc = "preflight"
  /\ \E o \in PreflightOutcomes :
       /\ reqlog' = Append(reqlog, "preflight")
       /\ IF _test_connection(o)
          THEN /\ preflight_result' = "ok"
               /\ pc' = "request"
               /\ UNCHANGED << wait_time, sleeps, result >>
          ELSE /\ preflight_result' = "failed"
               /\ IF retry_count <= 1
                  THEN /\ pc' = "done"
                       /\ result' = None
                       /\ UNCHANGED << wait_time, sleeps >>
                  ELSE /\ pc' = "sleep"
                       /\ wait_time' = PreflightWait
                       /\ sleeps' = Append(sleeps, [after |-> attempt,
                                                    wait |-> PreflightWait])
                       /\ UNCHANGED result
  /\ UNCHANGED << API_PREFLIGHT, N, retry_count, attempt, last, lead5xx, raised >>
  /\ UNCHANGED notEngine

\* the backend answers its first N main requests, and no more, with >= 500
Scripted(o) ==
  IF nRequests < N THEN Is5xx(o)
  ELSE IF nRequests = N THEN ~Is5xx(o)
  ELSE TRUE

\* the main HTTP request of one attempt and the handling of its outcome
Request ==
  /\ pc = "request"
  /\ \E o \in Outcomes :
       /\ Scripted(o)
       /\ reqlog' = Append(reqlog, "main")
       /\ last' = o
       /\ lead5xx' = IF Is5xx(o) /\ lead5xx = nRequests
                     THEN lead5xx + 1 ELSE lead5xx
       /\ LET step == AttemptStep(o, attempt, retry_count) IN
          CASE step.kind = "sleep" ->
                 /\ pc' = "sleep"
                 /\ wait_time' = step.wait
                 /\ sleeps' = Append(sleeps, [after |-> attempt,
                                              wait |-> step.wait])
                 /\ UNCHANGED << result, raised >>
            [] step.kind = "return" ->
                 /\ pc' = "done"
                 /\ result' = step.value
                 /\ UNCHANGED << wait_time, sleeps, raised >>
            [] OTHER ->
                 /\ pc' = "done"
                 /\ raised' = step.exc
                 /\ UNCHANGED << wait_time, sleeps, result >>
  /\ UNCHANGED << API_PREFLIGHT, N, retry_count, attempt, preflight_result >>
  /\ UNCHANGED notEngine

\* asyncio.sleep returns and the loop goes on with the next attempt
Wake ==
  /\ pc = "sleep"
  /\ wait_time' = 0
  /\ LoopHead(attempt + 1, retry_count)
  /\ UNCHANGED << API_PREFLIGHT, N, retry_count, preflight_result, last,
                  lead5xx, reqlog, sleeps, raised >>
  /\ UNCHANGED notEngine

Next == Call \/ Preflight \/ Request \/ Wake

Spec == Init /\ [][Next]_vars

TypeOK ==
  /\ API_PREFLIGHT \in BOOLEAN
  /\ pc \in {"idle", "preflight", "request", "sleep", "done"}
  /\ retry_count \in MinRetryCount..MaxRetryCount
  /\ attempt \in 0..MaxRetryCount
  /\ preflight_result \in {"none", "ok", "failed"}
  /\ result \in Payloads

(* ------------------------ vocabulary of the claims -------------------- *)

Done == pc = "done"

\* the attempt budget as a number of attempts
Budget == Max(retry_count, 0)

\* the latest main request was answered by a response
Answered == last.exc = "none"

\* a backoff sleep followed attempt k
SleptAfter(k) == \E i \in 1..Len(sleeps) : sleeps[i].after = k

\* the latest main request failed with a class the engine retries
RetryableFailure ==
  \/ last.exc \in TransportExceptions
  \/ Answered /\ last.response.status >= 500

\* the latest main request got a 2xx answer that is not a usable JSON document
Malformed ==
  /\ Answered
  /\ last.response.status \in 200..299
  /\ \/ ~IsJsonContentType(last.response.content_type)
     \/ last.response.body.text \in {"blank", "garbage"}

(* ------------------------------- claims ------------------------------- *)

\* C1: whatever the outcomes of the attempts, _make_request never lets an
\* exception reach its caller and ends by returning a value; when the call ends
\* on a failure of a retryable class (5xx, connection failure, timeout,
\* protocol error, unclassified exception) the returned value is null.
C1_NeverRaises ==
  /\ raised = "none"
  /\ Done => result \in Payloads
  /\ (Done /\ RetryableFailure) => result = None

C1_Witness ==
  /\ Done
  /\ retry_count = 3
  /\ nRequests = 3
  /\ last.exc = "RuntimeError"
  /\ result = None
  /\ raised = "none"

\* C2: the number of main HTTP requests issued never exceeds the attempt
\* budget, and is zero when the budget is <= 0, with or without preflight.
C2_RequestsWithinBudget ==
  pc # "idle" =>
    /\ nRequests <= Budget
    /\ retry_count <= 0 => nRequests = 0

C2_Witness ==
  /\ Done
  /\ API_PREFLIGHT
  /\ retry_count >= 3
  /\ nRequests = retry_count

\* C3: with the preflight disabled or passing, a backend that answers its first
\* N requests with a status >= 500 gets exactly min(maxAttempts, N) attempts
\* answered that way; the sleep after such an answer at attempt k is 2^k
\* seconds; when N >= maxAttempts the call gives up and returns null.
C3_ServerErrorRetries ==
  preflight_result # "failed" =>
    /\ Done => lead5xx = Min(Budget, N)
    /\ (pc = "sleep" /\ Answered /\ last.response.status >= 500)
         => wait_time = 2^attempt /\ attempt < retry_count - 1
    /\ (Done /\ N >= Budget) => /\ nRequests = Budget
                                /\ result = None

C3_Witness ==
  /\ Done
  /\ preflight_result = "ok"
  /\ retry_count = 3
  /\ N >= 3
  /\ lead5xx = 3
  /\ sleeps = << [after |-> 0, wait |-> 1], [after |-> 1, wait |-> 2] >>
  /\ result = None

\* C4: a response with status 404 or another 4xx status, on any attempt, ends
\* the call at once with null: no sleep follows that attempt and no further
\* request is sent, even when attempts remain.
C4_ClientErrorNoRetry ==
  (Answered /\ last.response.status \in 400..499) =>
    /\ Done
    /\ result = None
    /\ raised = "none"
    /\ ~SleptAfter(attempt)
    /\ nRequests = attempt + (IF preflight_result = "failed" THEN 0 ELSE 1)

C4_Witness ==
  /\ Done
  /\ last.response.status = 400
  /\ attempt = 1
  /\ retry_count = 3
  /\ result = None

\* C5: a 2xx response that is malformed (non-JSON content type, blank body, or
\* a JSON-declared body that does not parse) ends the call on that attempt with
\* null and without retry: no sleep follows and no further request is sent.
C5_MalformedNoRetry ==
  Malformed =>
    /\ Done
    /\ result = None
    /\ ~SleptAfter(attempt)

\* C6 as stated: the sleep after a failure at a non-final attempt k is 2^k for
\* a connection failure, a connect timeout, a generic timeout, a protocol error
\* and an unclassified exception, and min(2^k, 10) for a read timeout only.
C6_CapOnReadTimeoutOnly ==
  (pc = "sleep" /\ last.exc \in TransportExceptions) =>
    wait_time = IF last.exc = "ReadTimeout"
                THEN Min(2^attempt, 10) ELSE 2^attempt

\* C6 (amended): the sleep after a failure at a non-final attempt k is 2^k for
\* a connection failure, a protocol error and an unclassified exception, and
\* min(2^k, 10) for every timeout class (connect, read and generic); such a
\* failure ends the call only at the final attempt.
C6_BackoffPerClass ==
  /\ (pc = "sleep" /\ last.exc \in TransportExceptions) =>
       /\ attempt < retry_count - 1
       /\ wait_time =
            IF last.exc \in {"ConnectTimeout", "ReadTimeout", "WriteTimeout"}
            THEN Min(2^attempt, 10) ELSE 2^attempt
  /\ (Done /\ last.exc \in TransportExceptions) => attempt = retry_count - 1

C6_Witness ==
  /\ pc = "sleep"
  /\ last.exc = "ConnectTimeout"
  /\ attempt = 4
  /\ wait_time = 10

\* C7: the preflight GET is sent only before the first attempt and only when
\* the preflight check is enabled; when it fails no main request is sent in
\* that attempt, and with maxAttempts <= 1 the call ends with null having sent
\* no main request.
C7_PreflightOnlyFirst ==
  /\ \A i \in 1..Len(reqlog) : reqlog[i] = "preflight" => i = 1
  /\ nPreflights > 0 => API_PREFLIGHT
  /\ (API_PREFLIGHT /\ reqlog # << >>) => reqlog[1] = "preflight"
  /\ (preflight_result = "failed" /\ attempt = 0) => nRequests = 0
  /\ (preflight_result = "failed" /\ retry_count <= 1) =>
       /\ Done
       /\ result = None
       /\ nRequests = 0

C7_Witness ==
  /\ Done
  /\ preflight_result = "failed"
  /\ retry_count = 1
  /\ reqlog = << "preflight" >>
  /\ result = None

\* C8 as stated: after a failed preflight with maxAttempts > 1 the request
\* that follows the wait is the preflight GET again, and a main request is
\* sent only after a preflight has succeeded.
C8_PreflightRetried ==
  /\ (preflight_result = "failed" /\ Len(reqlog) >= 2) => reqlog[2] = "preflight"
  /\ (API_PREFLIGHT /\ nRequests > 0) => preflight_result = "ok"

\* C8 (amended): after a failed preflight with maxAttempts > 1 the engine
\* waits the fixed 2 seconds and goes on with the next attempt without
\* repeating the preflight: the request that follows the wait is the main
\* request, sent although no preflight has succeeded.
C8_PreflightNotRetried ==
  (preflight_result = "failed" /\ retry_count > 1) =>
    /\ sleeps # << >>
    /\ sleeps[1] = [after |-> 0, wait |-> 2]
    /\ nPreflights = 1
    /\ Len(reqlog) >= 2 => reqlog[2] = "main"
    /\ pc # "preflight"

C8_Witness ==
  /\ preflight_result = "failed"
  /\ retry_count = 2
  /\ reqlog = << "preflight", "main" >>
  /\ sleeps[1].wait = 2

\* the latest main request got a 200 answer with a JSON document as its body
GotJson ==
  /\ Answered
  /\ last.response.status = 200
  /\ IsJsonContentType(last.response.content_type)
  /\ last.response.body.text = "json"

\* C9: the value returned for a JSON document is given by the ordered rule:
\* a non-object as it is; else the value of `response` when that key is
\* present; else the value of `data`; else null when `success` is false and
\* `error` is present; else the object unchanged.
C9_UnwrapRule ==
  (Done /\ GotJson) =>
    LET p == last.response.body.json
        has(k) == k \in DOMAIN p.fields
    IN /\ p.kind # "object" => result = p
       /\ (p.kind = "object" /\ has("response")) =>
            result = Atom(p.fields["response"])
       /\ (p.kind = "object" /\ ~has("response") /\ has("data")) =>
            result = Atom(p.fields["data"])
       /\ (p.kind = "object" /\ ~has("response") /\ ~has("data")
           /\ has("success") /\ p.fields["success"] = "false" /\ has("error")) =>
            result = Atom("null")
       /\ (p.kind = "object" /\ ~has("response") /\ ~has("data")
           /\ ~(has("success") /\ p.fields["success"] = "false" /\ has("error"))) =>
            result = p

C9_Witness ==
  /\ Done
  /\ GotJson
  /\ last.response.body.json.kind = "object"
  /\ DOMAIN last.response.body.json.fields =
       {"response", "data", "success", "error"}
  /\ last.response.body.json.fields["response"] = "str"
  /\ last.response.body.json.fields["data"] = "null"
  /\ last.response.body.json.fields["success"] = "false"
  /\ result = Atom("str")

\* C10: a non-null value is returned only if the latest attempt got a 2xx
\* answer other than 204/205 with a JSON content type and a non-blank body
\* that parsed; a 204 or 205 answer gives null even with a JSON body.
C10_NonNullOnlyFromJson ==
  /\ (Done /\ result # None) =>
       /\ Answered
       /\ last.response.status \in 200..299
       /\ last.response.status \notin {204, 205}
       /\ IsJsonContentType(last.response.content_type)
       /\ last.response.body.text = "json"
       /\ last.response.body.json # None
  /\ (Answered /\ last.response.status \in {204, 205}) =>
       /\ Done
       /\ result = None

C10_Witness ==
  /\ Done
  /\ last.response.status = 205
  /\ IsJsonContentType(last.response.content_type)
  /\ last.response.body = JsonBody(Object([data |-> "str"]))
  /\ result = None

(* ===================================================================== *)
(* Transport configuration: get_headers and get_client_kwargs             *)
(* ===================================================================== *)

\* the request engine at rest
EngineIdle ==
  /\ API_PREFLIGHT = FALSE
  /\ N = 0
  /\ pc = "idle"
  /\ retry_count = 3
  /\ attempt = 0
  /\ wait_time = 0
  /\ preflight_result = "none"
  /\ last = NoOutcome
  /\ lead5xx = 0
  /\ reqlog = << >>
  /\ sleeps = << >>
  /\ result = None
  /\ raised = "none"

\* values of REMNAWAVE_API_TOKEN: unset, empty, or a token
Tokens == {"<None>", "", "tok1", "tok2"}

\* values of API_COOKIES: the empty map or a map with entries
CookieMaps == { NoCookies, [k \in {"sid"} |-> "abc"],
                [k \in {"sid", "csrf"} |-> IF k = "sid" THEN "abc" ELSE "x"] }

\* Python truthiness of a string or None
Truthy(str) == str \notin {"<None>", ""}

\* the headers every request carries
BaseHeaders == [k \in {"Content-Type", "Accept", "User-Agent", "Connection"} |->
                 CASE k = "Content-Type" -> << "application/json" >>
                   [] k = "Accept"       -> << "application/json" >>
                   [] k = "User-Agent"   -> << "RemnaBot/1.1" >>
                   [] OTHER              -> << "close" >>]

\* get_headers
get_headers(token) ==
  IF Truthy(token)
  THEN [k \in DOMAIN BaseHeaders \cup {"Authorization"} |->
          IF k = "Authorization" THEN << "Bearer", token >> ELSE BaseHeaders[k]]
  ELSE BaseHeaders

\* the keys get_client_kwargs always sets
BaseKwargs == {"timeout", "verify", "headers", "limits", "http2", "cert",
               "trust_env"}

\* the cookie jar attached only when no token is configured
ClientKwargsCookiesUnlessToken(token, cookies) ==
  [ headers |-> get_headers(token),
    kwargs  |-> IF DOMAIN cookies # {} /\ ~Truthy(token)
                THEN BaseKwargs \cup {"cookies"} ELSE BaseKwargs,
    cookies |-> IF DOMAIN cookies # {} /\ ~Truthy(token)
                THEN cookies ELSE NoCookies ]

\* get_client_kwargs: the keyword arguments of httpx.AsyncClient
get_client_kwargs(token, cookies) ==
  [ headers |-> get_headers(token),
    kwargs  |-> IF DOMAIN cookies # {}
                THEN BaseKwargs \cup {"cookies"} ELSE BaseKwargs,
    cookies |-> IF DOMAIN cookies # {} THEN cookies ELSE NoCookies ]

\* HTTP methods callers pass, and the request bodies (None or some data)
Methods == {"GET", "POST", "PATCH", "DELETE", "put"}

Bodies == {"<None>", "data"}

\* method.upper()
Upper(method) == IF method = "put" THEN "PUT" ELSE method

\* the request _make_request hands to httpx for one attempt
BuildRequest(method, data) ==
  LET ck == get_client_kwargs(API_TOKEN, API_COOKIES) IN
  [ kind |-> "main", method |-> method, headers |-> ck.headers,
    cookies |-> ck.cookies, kwargs |-> ck.kwargs,
    json |-> (Upper(method) \in {"POST", "PATCH", "PUT"} /\ data # "<None>") ]

\* the request _test_connection hands to httpx
BuildPreflight ==
  LET ck == get_client_kwargs(API_TOKEN, API_COOKIES) IN
  [ kind |-> "preflight", method |-> "GET", headers |-> ck.headers,
    cookies |-> ck.cookies, kwargs |-> ck.kwargs, json |-> FALSE ]

InitTransport ==
  /\ API_TOKEN \in Tokens
  /\ API_COOKIES \in CookieMaps
  /\ t_pc = "idle"
  /\ sent = NoRequest
  /\ EngineIdle
  /\ ResolverIdle
  /\ MatchIdle
  /\ OthersIdle

\* _make_request builds and sends the main request of an attempt
SendRequest ==
  /\ t_pc = "idle"
  /\ \E method \in Methods, data \in Bodies :
       sent' = BuildRequest(method, data)
  /\ t_pc' = "sent"
  /\ UNCHANGED << API_TOKEN, API_COOKIES >>
  /\ UNCHANGED notTransport

\* _test_connection builds and sends the preflight GET
SendPreflight ==
  /\ t_pc = "idle"
  /\ sent' = BuildPreflight
  /\ t_pc' = "sent"
  /\ UNCHANGED << API_TOKEN, API_COOKIES >>
  /\ UNCHANGED notTransport

NextTransport == SendRequest \/ SendPreflight

SpecTransport == InitTransport /\ [][NextTransport]_vars

\* a bearer token is configured
TokenConfigured == API_TOKEN \notin {"<None>", ""}

\* cookie configuration is present
CookiesConfigured == DOMAIN API_COOKIES # {}

\* the request carries the Authorization header of the configured token
CarriesBearer ==
  /\ "Authorization" \in DOMAIN sent.headers
  /\ sent.headers["Authorization"] = << "Bearer", API_TOKEN >>

\* the request carries the configured cookie jar
CarriesCookies == "cookies" \in sent.kwargs /\ sent.cookies = API_COOKIES

\* C11 as stated: every request carries the Authorization header exactly when
\* a token is configured, and the cookie jar exactly when no token is
\* configured and cookie configuration is present.
C11_CookiesOnlyWithoutToken ==
  t_pc = "sent" =>
    /\ CarriesBearer <=> TokenConfigured
    /\ "Authorization" \in DOMAIN sent.headers <=> TokenConfigured
    /\ "cookies" \in sent.kwargs <=> (~TokenConfigured /\ CookiesConfigured)

\* C11 (amended): every request carries the Authorization header exactly when
\* a token is configured, and the cookie jar exactly when cookie configuration
\* is present, whether or not a token is configured; with both configured the
\* request carries both, with neither it carries no credentials.
C11_AuthPerMechanism ==
  t_pc = "sent" =>
    /\ CarriesBearer <=> TokenConfigured
    /\ "Authorization" \in DOMAIN sent.headers <=> TokenConfigured
    /\ CarriesCookies <=> CookiesConfigured
    /\ "cookies" \in sent.kwargs <=> CookiesConfigured

C11_Witness ==
  /\ t_pc = "sent"
  /\ sent.kind = "main"
  /\ API_TOKEN = "tok1"
  /\ DOMAIN API_COOKIES = {"sid", "csrf"}
  /\ CarriesBearer
  /\ CarriesCookies

(* ===================================================================== *)
(* Inbound membership resolver: InboundAPI.get_inbound_users              *)
(* ===================================================================== *)

(* ------------------------- backend data shapes ------------------------ *)

\* a field that is absent (or None) in a JSON object
Absent == ""

\* a port field that is absent
NoPort == -1

\* an inbound reference given as an object; absent fields are Absent / NoPort
DictRef(uuid, tag, port, listenPort, type) ==
  [kind |-> "dict", uuid |-> uuid, tag |-> tag, port |-> port,
   listenPort |-> listenPort, type |-> type]

\* an inbound reference given as a bare UUID string
StrRef(uuid) ==
  [kind |-> "str", uuid |-> uuid, tag |-> Absent, port |-> NoPort,
   listenPort |-> NoPort, type |-> Absent]

\* a null entry of a reference list
NullRef ==
  [kind |-> "none", uuid |-> Absent, tag |-> Absent, port |-> NoPort,
   listenPort |-> NoPort, type |-> Absent]

\* `x.get('port') if x.get('port') is not None else x.get('listenPort')`
PortOf(x) == IF x.port # NoPort THEN x.port ELSE x.listenPort

\* a reference matched by UUID only when it carries no UUID mismatch
MatchesUuidFirst(ref, tgt, uuid) ==
  CASE ref.kind = "str"  -> ref.uuid = uuid
    [] ref.kind = "dict" ->
         IF ref.uuid # Absent THEN ref.uuid = uuid
         ELSE /\ tgt.kind = "dict"
              /\ ref.tag # Absent /\ tgt.tag # Absent /\ ref.tag = tgt.tag
              /\ PortOf(ref) # NoPort /\ PortOf(tgt) # NoPort
              /\ PortOf(ref) = PortOf(tgt)
              /\ ref.type # Absent /\ tgt.type # Absent /\ ref.type = tgt.type
    [] OTHER -> FALSE

\* matches_inbound_ref(ref, tgt), a closure over inbound_uuid
matches_inbound_ref(ref, tgt, uuid) ==
  CASE ref.kind = "none" -> FALSE
    [] ref.kind = "str"  -> ref.uuid = uuid
    [] ref.kind = "dict" ->
         \/ ref.uuid = uuid
         \/ /\ tgt.kind = "dict"
            /\ ref.tag # Absent /\ tgt.tag # Absent /\ ref.tag = tgt.tag
            /\ PortOf(ref) # NoPort /\ PortOf(tgt) # NoPort
            /\ PortOf(ref) = PortOf(tgt)
            /\ ref.type # Absent /\ tgt.type # Absent /\ ref.type = tgt.type
    [] OTHER -> FALSE

\* any(matches_inbound_ref(r, tgt) for r in refs)
AnyMatch(refs, tgt, uuid) ==
  \E i \in 1..Len(refs) : matches_inbound_ref(refs[i], tgt, uuid)

\* str(value).strip().upper() of the modelled status texts
StripUpper(value) ==
  CASE value = " enabled " -> "ENABLED"
    [] value = "on"        -> "ON"
    [] value = "active"    -> "ACTIVE"
    [] OTHER               -> value

\* every status but a missing, false or disabled one counts as active
ActiveUnlessDisabled(value) == value \notin {"<None>", "<False>", "DISABLED"}

\* InboundAPI._is_active_status; "<None>", "<True>", "<False>" stand for the
\* values None, True and False
_is_active_status(value) ==
  IF value = "<None>" THEN FALSE
  ELSE IF value \in {"<True>", "<False>"} THEN value = "<True>"
  ELSE StripUpper(value) \in {"ACTIVE", "ENABLED", "TRUE", "ON"}

\* a `configProfile` field: absent, a nested object with `uuid`, or a string
NoProfile == [kind |-> "absent", uuid |-> Absent]

NestedProfile(uuid) == [kind |-> "dict", uuid |-> uuid]

\* a subscription item
Sub(status, inbounds, cpu, cp) ==
  [present |-> TRUE, status |-> status, inbounds |-> inbounds,
   configProfileUuid |-> cpu, configProfile |-> cp]

\* the absent `subscription` field; it also stands for the `{}` of
\* `subscription or {}`
NoSub ==
  [present |-> FALSE, status |-> "<None>", inbounds |-> << >>,
   configProfileUuid |-> Absent, configProfile |-> NoProfile]

\* a user record
User(status, sub, subs, inbounds, active, tag, cpu, cp) ==
  [uuid |-> Absent, status |-> status, subscription |-> sub,
   subscriptions |-> subs, inbounds |-> inbounds,
   activeInbounds |-> active, tag |-> tag,
   configProfileUuid |-> cpu, configProfile |-> cp]

\* the profile UUID read as `cpu or (cp.uuid if cp is a dict else cp)`
ProfileUuidFlatFirst(x) ==
  IF x.configProfileUuid # Absent THEN x.configProfileUuid
  ELSE x.configProfile.uuid

\* `x.get('configProfileUuid') or (x.get('configProfile', {}) or {}).get('uuid')
\*    if isinstance(x.get('configProfile'), dict) else x.get('configProfile')`
\* which Python reads as `(A or B) if C else D`
ProfileUuidOf(x) ==
  IF x.configProfile.kind = "dict"
  THEN IF x.configProfileUuid # Absent THEN x.configProfileUuid
       ELSE x.configProfile.uuid
  ELSE x.configProfile.uuid

\* subscription_items: the singular `subscription` then the `subscriptions`
SubscriptionItems(user) ==
  (IF user.subscription.present THEN << user.subscription >> ELSE << >>)
  \o user.subscriptions

\* some item of the list has a direct `inbounds` reference to the target
DirectMatch(items, tgt, uuid) ==
  \E i \in 1..Len(items) : AnyMatch(items[i].inbounds, tgt, uuid)

\* the first truthy profile UUID of the items, Absent when there is none
FirstProfile(items) ==
  LET hits == {i \in 1..Len(items) : ProfileUuidOf(items[i]) # Absent}
  IN IF hits = {} THEN Absent
     ELSE ProfileUuidOf(items[CHOOSE i \in hits : \A j \in hits : i <= j])

\* config_profile_uuid of a user after the subscription loop
ConfigProfileUuid(user, tgt, uuid) ==
  LET items == SubscriptionItems(user)
      left  == IF DirectMatch(items, tgt, uuid) THEN << >> ELSE items
      loop  == IF left # << >> THEN left ELSE << user.subscription >>
      fromSubs == FirstProfile(loop)
  IN IF fromSubs # Absent THEN fromSubs ELSE ProfileUuidOf(user)

\* `any(ib.get("uuid") == inbound_uuid for ib in profile_inbounds)`: "hit",
\* "miss", or "error" when a non-object entry is reached before a hit
IndexTest(refs, uuid) ==
  LET stops == {i \in 1..Len(refs) :
                  refs[i].kind # "dict" \/ refs[i].uuid = uuid}
  IN IF stops = {} THEN "miss"
     ELSE LET k == CHOOSE i \in stops : \A j \in stops : i <= j
          IN IF refs[k].kind = "dict" THEN "hit" ELSE "error"

\* str(tag).strip().lower() of the modelled tags
Lower(tag) == IF tag = "T1" THEN "t1" ELSE tag

(* ------------------- matches_inbound_ref on its own ------------------- *)

\* the inbound UUID the modelled queries ask for
TargetUuid == "I1"

\* the canonical record of the target inbound
I1rec == DictRef("I1", "t1", 443, NoPort, "vless")

\* the references a reference list may hold
Refs ==
  { DictRef(u, t, po, lp, ty) :
      u \in {Absent, "I1", "I2"}, t \in {Absent, "t1", "t2"},
      po \in {NoPort, 443, 80}, lp \in {NoPort, 443},
      ty \in {Absent, "vless", "trojan"} }
  \cup { StrRef("I1"), StrRef("I2"), NullRef,
         [NullRef EXCEPT !.kind = "other"] }

\* what target resolution may have produced for TargetUuid
Targets ==
  { NoTarget, I1rec,
    DictRef("I1", "t1", NoPort, 443, "vless"),
    DictRef("I1", Absent, 443, NoPort, "vless") }

InitMatch ==
  /\ m_pc = "idle"
  /\ m_ref \in Refs
  /\ m_tgt \in Targets
  /\ m_result = FALSE
  /\ EngineIdle
  /\ TransportIdle
  /\ ResolverIdle
  /\ OthersIdle

\* a reference of some list is tested against the target
ApplyMatch ==
  /\ m_pc = "idle"
  /\ m_result' = matches_inbound_ref(m_ref, m_tgt, TargetUuid)
  /\ m_pc' = "done"
  /\ UNCHANGED << m_ref, m_tgt >>
  /\ UNCHANGED notMatch

NextMatch == ApplyMatch

SpecMatch == InitMatch /\ [][NextMatch]_vars

\* the reference and the target agree on tag, port (`port` or `listenPort` on
\* either side) and type, all three being present on both sides
TripleAgrees ==
  /\ m_ref.tag # Absent /\ m_ref.tag = m_tgt.tag
  /\ (IF m_ref.port # NoPort THEN m_ref.port ELSE m_ref.listenPort) # NoPort
  /\ (IF m_ref.port # NoPort THEN m_ref.port ELSE m_ref.listenPort)
       = (IF m_tgt.port # NoPort THEN m_tgt.port ELSE m_tgt.listenPort)
  /\ m_ref.type # Absent /\ m_ref.type = m_tgt.type

\* C14 as stated: a reference that carries a UUID matches exactly when that
\* UUID is the target's; only a reference without a UUID is matched by tag,
\* port and type, all three agreeing.
C14_UuidDecidesWhenPresent ==
  m_pc = "done" =>
    /\ m_ref.kind = "str" => (m_result <=> m_ref.uuid = TargetUuid)
    /\ (m_ref.kind = "dict" /\ m_ref.uuid # Absent) =>
         (m_result <=> m_ref.uuid = TargetUuid)
    /\ (m_ref.kind = "dict" /\ m_ref.uuid = Absent) =>
         (m_result <=> (m_tgt.kind = "dict" /\ TripleAgrees))

\* C14 (amended): a bare string matches exactly when it equals the target
\* UUID; an object reference matches when its UUID equals the target UUID,
\* and otherwise, whether it carries no UUID or a different one, exactly when
\* the target record is known and tag, port (`port` or `listenPort` on either
\* side) and type all agree.
C14_UuidOrTriple ==
  m_pc = "done" =>
    /\ m_ref.kind = "str" => (m_result <=> m_ref.uuid = TargetUuid)
    /\ m_ref.kind \notin {"str", "dict"} => ~m_result
    /\ m_ref.kind = "dict" =>
         (m_result <=> \/ m_ref.uuid = TargetUuid
                       \/ m_tgt.kind = "dict" /\ TripleAgrees)

C14_Witness ==
  /\ m_pc = "done"
  /\ m_ref = DictRef("I2", "t1", NoPort, 443, "vless")
  /\ m_tgt = I1rec
  /\ m_result

(* ------------------------- the modelled backend ----------------------- *)

\* another inbound, which gives its port as `listenPort`
I2rec == DictRef("I2", "t2", NoPort, 8443, "trojan")

\* an inbound with the target's tag, port and type under another UUID
I1twin == DictRef("I7", "t1", 443, NoPort, "vless")

\* what config-profiles/inbounds lists: with the target, without it, empty
InboundListings == { << I1rec, I2rec >>, << I1twin >>, << >> }

\* a config profile of the profile list, identified by `uuid` or `id`
Profile(uuid, id) == [uuid |-> uuid, id |-> id]

ProfileListings ==
  { << Profile("P1", Absent), Profile(Absent, "P2") >>,
    << Profile(Absent, Absent), Profile("P1", "x") >> }

\* a reference that names only the UUID
UuidRef(uuid) == DictRef(uuid, Absent, NoPort, NoPort, Absent)

\* the inbound lists of the profiles P1 and P2
ProfileInbounds(p1, p2) == [p \in {"P1", "P2"} |-> IF p = "P1" THEN p1 ELSE p2]

ProfileInboundMaps ==
  { ProfileInbounds(<< UuidRef("I1") >>, << UuidRef("I2") >>),
    ProfileInbounds(<< StrRef("I1") >>, << UuidRef("I2") >>),
    ProfileInbounds(<< DictRef("I9", "t1", NoPort, 443, "vless") >>,
                    << UuidRef("I1"), StrRef("I2") >>),
    ProfileInbounds(<< UuidRef("I2"), UuidRef("I1") >>, << UuidRef("I1") >>) }

\* a user of a profile's user list
ProfileUser(uuid, status) == [uuid |-> uuid, status |-> status]

\* what the profile-users endpoint lists for a profile
ProfileUsers(p) ==
  IF p = "P1"
  THEN << ProfileUser("U1", "ACTIVE"), ProfileUser("U4", "DISABLED") >>
  ELSE << ProfileUser("U4", "DISABLED"), ProfileUser("U5", "ACTIVE"),
          ProfileUser("U5", "ACTIVE") >>

\* a user with a status and nothing else
Plain(status) ==
  User(status, NoSub, << >>, << >>, << >>, Absent, Absent, NoProfile)

\* a subscription item with nothing but the given fields
SubWith(inbounds, cpu, cp) == Sub("ACTIVE", inbounds, cpu, cp)

FlatUser == [Plain("ACTIVE") EXCEPT !.configProfileUuid = "P1"]

FlatUserInactive == [Plain("DISABLED") EXCEPT !.configProfileUuid = "P1"]

SubDirect ==
  [Plain("active") EXCEPT
     !.subscriptions = << SubWith(<< UuidRef("I1") >>, Absent, NoProfile) >>]

NestedUser == [Plain("ACTIVE") EXCEPT !.configProfile = NestedProfile("P1")]

SubFlat ==
  [Plain("ACTIVE") EXCEPT !.subscription = SubWith(<< >>, "P1", NoProfile)]

SubNested ==
  [Plain("ACTIVE") EXCEPT
     !.subscription = SubWith(<< >>, Absent, NestedProfile("P1"))]

DirectAndProfile ==
  [Plain("ACTIVE") EXCEPT
     !.subscription = SubWith(<< UuidRef("I1") >>, Absent, NestedProfile("P1"))]

LegacyBoth ==
  [Plain("<True>") EXCEPT !.inbounds = << StrRef("I1") >>,
                          !.activeInbounds = << UuidRef("I1") >>]

Tagged == [Plain(" enabled ") EXCEPT !.tag = "T1"]

TwoSubs ==
  [Plain("ACTIVE") EXCEPT
     !.subscriptions = << SubWith(<< >>, Absent, NestedProfile("P2")),
                          SubWith(<< >>, Absent, NestedProfile("P1")) >>]

InactiveLegacy ==
  [Plain("EXPIRED") EXCEPT !.inbounds = << StrRef("I1") >>, !.tag = "t1"]

TripleOnly ==
  [Plain("on") EXCEPT
     !.subscriptions =
        << SubWith(<< DictRef("I9", "t1", 443, NoPort, "vless") >>,
                   Absent, NoProfile) >>]

\* the user records the backend lists
UserShapes ==
  { Plain("ACTIVE"), FlatUser, FlatUserInactive, SubDirect, NestedUser,
    SubFlat, SubNested, DirectAndProfile, LegacyBoth, Tagged, TwoSubs,
    InactiveLegacy, TripleOnly }

\* the user records that also occur in lists of two
PairShapes ==
  { FlatUser, SubDirect, NestedUser, DirectAndProfile, LegacyBoth, Tagged }

\* the UUIDs of the listed users, by position
UserIds == << "U1", "U2", "U3" >>

\* a list of user records with the UUIDs of their positions
Listing(shapes) ==
  [i \in 1..Len(shapes) |-> [shapes[i] EXCEPT !.uuid = UserIds[i]]]

\* the scenario of three users: profile by flat field, direct reference,
\* inactive
ScenarioUsers == Listing(<< FlatUser, SubDirect, FlatUserInactive >>)

\* the user lists of the modelled backends
UserListings ==
  { << >> }
  \cup { Listing(<< a >>) : a \in UserShapes }
  \cup { Listing(<< a, b >>) : a \in PairShapes, b \in PairShapes }
  \cup { ScenarioUsers }

\* how a call of a resource client ends: a list, None, or an exception
FetchOutcomes == {"ok", "none", "raise"}

(* ----------------------- steps of the resolver ------------------------ *)

\* the target taken to be the first listed inbound
ResolveTargetFirst(listing, uuid) ==
  IF listing = << >> THEN NoTarget ELSE listing[1]

\* `next((i for i in all_inbounds if str(i.get('uuid')) == str(inbound_uuid)),
\*       None)`
ResolveTarget(listing, uuid) ==
  LET hits == {i \in 1..Len(listing) : listing[i].uuid = uuid}
  IN IF hits = {} THEN NoTarget
     ELSE listing[CHOOSE i \in hits : \A j \in hits : i <= j]

\* `profile.get("uuid") or profile.get("id")`
ProfileId(profile) == IF profile.uuid # Absent THEN profile.uuid ELSE profile.id

\* an exception of a profile fetch escaping its try block
NotCaught(outcome) == outcome # "raise"

\* the try/except around one profile's get_profile_inbounds call: whatever
\* the call ends in, the loop goes on
CaughtPerProfile(outcome) == TRUE

\* every fallback tried whatever was found before
AlwaysTry(found) == TRUE

\* `if not inbound_users`: the guard of each fallback strategy
NothingFound(found) == found = << >>

\* every listed user taken as new
NeverSeen(uuid, seenSet) == TRUE

\* `u_uuid and u_uuid not in seen`, u_uuid being the never empty
\* str(u.get('uuid'))
Unseen(uuid, seenSet) == uuid \notin seenSet

\* an entry of inbound_users: the user, and the rule that appended it
Entry(user, via) == [uuid |-> user.uuid, status |-> user.status, via |-> via]

\* the HTTP method of the resource clients' calls
ClientMethod(ep) == "GET"

\* the HTTP method of a backend call: get_inbounds uses RemnaAPI.get
MethodOf(ep) == IF ep = "inbounds" THEN "GET" ELSE ClientMethod(ep)

\* a backend call of the resolver, and whether it gave a usable answer
CallRec(ep, arg, outcome, phase) ==
  [ep |-> ep, arg |-> arg, ok |-> outcome = "ok", phase |-> phase,
   method |-> MethodOf(ep), run |-> run]

\* the inbound list of a profile, empty for a profile the backend lacks
InboundsOfProfile(p) == IF p \in DOMAIN b_pinb THEN b_pinb[p] ELSE << >>

\* the legacy-field pass over one user
LegacyEntries(user, tgt, uuid) ==
  IF ~_is_active_status(user.status) THEN << >>
  ELSE (IF AnyMatch(user.inbounds, tgt, uuid)
        THEN << Entry(user, "legacy_inbounds") >> ELSE << >>)
       \o (IF AnyMatch(user.activeInbounds, tgt, uuid)
           THEN << Entry(user, "legacy_active") >> ELSE << >>)

RECURSIVE LegacyPass(_, _, _, _)
\* the legacy-field pass over the users from position i on
LegacyPass(us, i, tgt, uuid) ==
  IF i > Len(us) THEN << >>
  ELSE LegacyEntries(us[i], tgt, uuid) \o LegacyPass(us, i + 1, tgt, uuid)

RECURSIVE TagPass(_, _, _)
\* the tag heuristic over the users from position i on
TagPass(us, i, tgt) ==
  IF i > Len(us) THEN << >>
  ELSE (IF /\ _is_active_status(us[i].status)
           /\ us[i].tag # Absent
           /\ Lower(us[i].tag) = Lower(tgt.tag)
        THEN << Entry(us[i], "tag") >> ELSE << >>)
       \o TagPass(us, i + 1, tgt)

RECURSIVE AddUnseen(_, _, _, _)
\* the profile users from position i on appended unless already seen
AddUnseen(pus, i, list, seenSet) ==
  IF i > Len(pus) THEN [list |-> list, seen |-> seenSet]
  ELSE IF Unseen(pus[i].uuid, seenSet)
       THEN AddUnseen(pus, i + 1,
                      Append(list, Entry(pus[i], "profile_users")),
                      seenSet \cup {pus[i].uuid})
       ELSE AddUnseen(pus, i + 1, list, seenSet)

InitResolver ==
  /\ inbound_uuid = TargetUuid
  /\ b_inbounds \in InboundListings
  /\ b_profiles \in ProfileListings
  /\ b_pinb \in ProfileInboundMaps
  /\ b_users \in UserListings
  /\ r_pc = "inbounds"
  /\ r_i = 0
  /\ target = NoTarget
  /\ index = {}
  /\ users = << >>
  /\ inbound_users = << >>
  /\ seen = {}
  /\ todo = {}
  /\ calls = << >>
  /\ r_result = << >>
  /\ r_out = NoOutput
  /\ b_flaky = TRUE
  /\ b_down = {}
  /\ inflight = << >>
  /\ run = 1
  /\ returns = << >>
  /\ parked = NoInvocation
  /\ EngineIdle
  /\ TransportIdle
  /\ MatchIdle
  /\ OthersIdle

backend ==
  << inbound_uuid, b_inbounds, b_profiles, b_pinb, b_users, b_flaky, b_down >>

\* what a step of one call leaves alone: the number of the call, the lists
\* returned by earlier calls, and the local variables of a suspended call
history == << run, returns, parked >>

\* get_inbound_users returns the list
ReturnList(list) ==
  /\ r_result' = list
  /\ r_pc' = "returned"

\* a backend call that is due or pending
Due(ep, arg) == [ep |-> ep, arg |-> arg]

\* how the pending call may end: anything for a flaky backend, else as the
\* backend state fixes it
Answers(c) ==
  IF b_flaky THEN FetchOutcomes
  ELSE IF c \in b_down THEN {"raise"} ELSE {"ok"}

\* a call that does not suspend its caller
NeverSuspended(pending) == FALSE

\* `await`: the coroutine is suspended while a call of its own is pending
Suspended(pending) == pending > 0

\* config_profile_uuid of the user under scan
ScanProfile(user) == ConfigProfileUuid(user, target, inbound_uuid)

\* the fast path of the direct scan: the profile is in the index
FastPath(user) ==
  /\ _is_active_status(user.status)
  /\ ScanProfile(user) # Absent
  /\ index # {}
  /\ ScanProfile(user) \in index

\* the direct scan has to fetch the profile's inbounds
NeedsFetch(user) ==
  /\ _is_active_status(user.status)
  /\ ScanProfile(user) # Absent
  /\ ~FastPath(user)

\* the backend calls the resolver makes next at its position
DueCalls ==
  CASE r_pc = "inbounds" -> {Due("inbounds", Absent)}
    [] r_pc = "profiles" -> {Due("profiles", Absent)}
    [] r_pc = "index" ->
         IF ProfileId(b_profiles[r_i]) = Absent THEN {}
         ELSE {Due("profile_inbounds", ProfileId(b_profiles[r_i]))}
    [] r_pc = "users" -> {Due("users", Absent)}
    [] r_pc = "scan" ->
         IF NeedsFetch(users[r_i])
         THEN {Due("profile_inbounds", ScanProfile(users[r_i]))}
         ELSE {}
    [] r_pc = "profile_users" -> {Due("profile_users", p) : p \in todo}
    [] OTHER -> {}

\* a call is pending
Pending == inflight # << >>

\* the resolver issues the call that is due and awaits it; the profile of
\* the profile-users loop comes in the iteration order of the set
IssueCall ==
  /\ DueCalls # {}
  /\ ~Suspended(Len(inflight))
  /\ \E c \in DueCalls : inflight' = Append(inflight, c)
  /\ UNCHANGED << backend, history, r_pc, r_i, target, index, users,
                  inbound_users, seen, todo, calls, r_result, r_out >>
  /\ UNCHANGED notResolver

\* target resolution: get_inbounds() has returned
FetchInbounds ==
  /\ r_pc = "inbounds"
  /\ Pending
  /\ \E o \in Answers(inflight[1]) :
       /\ calls' = Append(calls, CallRec("inbounds", Absent, o, "target"))
       /\ target' = IF o = "ok" THEN ResolveTarget(b_inbounds, inbound_uuid)
                    ELSE NoTarget
  /\ inflight' = Tail(inflight)
  /\ r_pc' = "profiles"
  /\ UNCHANGED << backend, history, r_i, index, users, inbound_users, seen,
                  todo, r_result, r_out >>
  /\ UNCHANGED notResolver

\* `profile_uuids_for_inbound = set()`; get_profiles() has returned
FetchProfiles ==
  /\ r_pc = "profiles"
  /\ Pending
  /\ \E o \in Answers(inflight[1]) :
       /\ calls' = Append(calls, CallRec("profiles", Absent, o, "index"))
       /\ IF o = "ok" /\ b_profiles # << >>
          THEN r_pc' = "index" /\ r_i' = 1
          ELSE r_pc' = "users" /\ r_i' = 0
  /\ inflight' = Tail(inflight)
  /\ index' = {}
  /\ UNCHANGED << backend, history, target, users, inbound_users, seen, todo,
                  r_result, r_out >>
  /\ UNCHANGED notResolver

\* one iteration of the index loop: get_profile_inbounds(profile_uuid) has
\* returned, or the profile has no identifier
IndexProfile ==
  /\ r_pc = "index"
  /\ DueCalls # {} => Pending
  /\ LET p == ProfileId(b_profiles[r_i])
         more == r_i < Len(b_profiles)
     IN IF p = Absent
        THEN /\ UNCHANGED << calls, index, inflight >>
             /\ IF more THEN r_pc' = "index" /\ r_i' = r_i + 1
                ELSE r_pc' = "users" /\ r_i' = 0
        ELSE \E o \in Answers(inflight[1]) :
               /\ calls' = Append(calls,
                                  CallRec("profile_inbounds", p, o, "index"))
               /\ inflight' = Tail(inflight)
               /\ index' = IF o = "ok"
                              /\ IndexTest(InboundsOfProfile(p), inbound_uuid)
                                   = "hit"
                           THEN index \cup {p} ELSE index
               /\ IF more /\ CaughtPerProfile(
                               IF o = "ok"
                                  /\ IndexTest(InboundsOfProfile(p),
                                               inbound_uuid) = "error"
                               THEN "raise" ELSE o)
                  THEN r_pc' = "index" /\ r_i' = r_i + 1
                  ELSE r_pc' = "users" /\ r_i' = 0
  /\ UNCHANGED << backend, history, target, users, inbound_users, seen, todo,
                  r_result, r_out >>
  /\ UNCHANGED notResolver

\* a result list kept from the call before
KeptList(previous) == previous

\* `inbound_users = []`
FreshList(previous) == << >>

\* get_all_users() has returned: the two early returns, or the start of the
\* direct scan
FetchUsers ==
  /\ r_pc = "users"
  /\ Pending
  /\ \E o \in Answers(inflight[1]) :
       /\ calls' = Append(calls, CallRec("users", Absent, o, "scan"))
       /\ IF o \in {"none", "raise"} \/ b_users = << >>
          THEN /\ ReturnList(<< >>)
               /\ UNCHANGED << users, r_i, inbound_users >>
          ELSE /\ users' = b_users
               /\ inbound_users' = FreshList(inbound_users)
               /\ r_pc' = "scan"
               /\ r_i' = 1
               /\ UNCHANGED r_result
  /\ inflight' = Tail(inflight)
  /\ UNCHANGED << backend, history, target, index, seen, todo, r_out >>
  /\ UNCHANGED notResolver

\* one iteration of the direct scan; when the user's profile is not in the
\* index, get_profile_inbounds(config_profile_uuid) has returned
ScanUser ==
  /\ r_pc = "scan"
  /\ DueCalls # {} => Pending
  /\ LET user   == users[r_i]
         active == _is_active_status(user.status)
         direct == active /\ DirectMatch(SubscriptionItems(user), target,
                                         inbound_uuid)
         cpu    == ScanProfile(user)
         fast   == FastPath(user)
         fetch  == NeedsFetch(user)
         more   == r_i < Len(users)
     IN \E o \in (IF fetch THEN Answers(inflight[1]) ELSE {"ok"}) :
          LET verified == /\ fetch
                          /\ o = "ok"
                          /\ AnyMatch(InboundsOfProfile(cpu), target,
                                      inbound_uuid)
              found == inbound_users
                       \o (IF direct THEN << Entry(user, "direct") >>
                           ELSE << >>)
                       \o (IF fast THEN << Entry(user, "profile_map") >>
                           ELSE << >>)
                       \o (IF verified THEN << Entry(user, "on_demand") >>
                           ELSE << >>)
          IN /\ calls' = IF fetch
                         THEN Append(calls, CallRec("profile_inbounds", cpu,
                                                    o, "scan"))
                         ELSE calls
             /\ inflight' = IF fetch THEN Tail(inflight) ELSE inflight
             /\ IF fetch /\ ~CaughtPerProfile(o)
                THEN /\ ReturnList(<< >>)
                     /\ UNCHANGED << inbound_users, r_i >>
                ELSE /\ inbound_users' = found
                     /\ UNCHANGED r_result
                     /\ IF more THEN r_pc' = "scan" /\ r_i' = r_i + 1
                        ELSE r_pc' = "fallbacks" /\ r_i' = 0
  /\ UNCHANGED << backend, history, target, index, users, seen, todo, r_out >>
  /\ UNCHANGED notResolver

\* the legacy-field pass and the tag heuristic, then the return or the start
\* of the profile-users fallback
Fallbacks ==
  /\ r_pc = "fallbacks"
  /\ LET afterLegacy ==
           IF NothingFound(inbound_users)
           THEN inbound_users \o LegacyPass(users, 1, target, inbound_uuid)
           ELSE inbound_users
         afterTag ==
           IF NothingFound(afterLegacy) /\ target.kind = "dict"
              /\ target.tag # Absent
           THEN afterLegacy \o TagPass(users, 1, target)
           ELSE afterLegacy
     IN /\ inbound_users' = afterTag
        /\ IF NothingFound(afterTag) /\ index # {}
           THEN /\ r_pc' = "profile_users"
                /\ todo' = index
                /\ seen' = {}
                /\ UNCHANGED r_result
           ELSE /\ ReturnList(afterTag)
                /\ UNCHANGED << todo, seen >>
  /\ UNCHANGED << backend, history, r_i, target, index, users, calls, r_out,
                  inflight >>
  /\ UNCHANGED notResolver

\* one iteration of the profile-users fallback: get_profile_users(p_uuid)
\* has returned
FetchProfileUsers ==
  /\ r_pc = "profile_users"
  /\ Pending
  /\ \E o \in Answers(inflight[1]) :
       LET p   == inflight[1].arg
           pus == IF o = "ok" THEN ProfileUsers(p) ELSE << >>
           acc == AddUnseen(pus, 1, inbound_users, seen)
       IN /\ calls' = Append(calls, CallRec("profile_users", p, o, "fallback"))
          /\ inbound_users' = acc.list
          /\ seen' = acc.seen
          /\ todo' = todo \ {p}
          /\ IF todo \ {p} = {}
             THEN ReturnList(acc.list)
             ELSE UNCHANGED << r_pc, r_result >>
  /\ inflight' = Tail(inflight)
  /\ UNCHANGED << backend, history, r_i, target, index, users, r_out >>
  /\ UNCHANGED notResolver

\* enabled counted as status "ACTIVE" only
StatsExactActive(list) ==
  LET enabled == Cardinality({i \in 1..Len(list) : list[i].status = "ACTIVE"})
  IN [query |-> "stats", count |-> 0, enabled |-> enabled,
      disabled |-> Len(list) - enabled, total |-> Len(list)]

\* get_inbound_users_stats, from the list the resolver returned
StatsOf(list) ==
  IF list = << >>
  THEN [query |-> "stats", count |-> 0, enabled |-> 0, disabled |-> 0,
        total |-> 0]
  ELSE LET enabled == Cardinality({i \in 1..Len(list) :
                                     _is_active_status(list[i].status)})
       IN [query |-> "stats", count |-> 0, enabled |-> enabled,
           disabled |-> Len(list) - enabled, total |-> Len(list)]

\* get_inbound_users_count, once the resolver has returned
get_inbound_users_count ==
  /\ r_pc = "returned"
  /\ r_out' = [NoOutput EXCEPT !.query = "count", !.count = Len(r_result)]
  /\ r_pc' = "done"
  /\ UNCHANGED << backend, history, r_i, target, index, users, inbound_users,
                  seen, todo, calls, r_result, inflight >>
  /\ UNCHANGED notResolver

\* get_inbound_users_stats, once the resolver has returned
get_inbound_users_stats ==
  /\ r_pc = "returned"
  /\ r_out' = StatsOf(r_result)
  /\ r_pc' = "done"
  /\ UNCHANGED << backend, history, r_i, target, index, users, inbound_users,
                  seen, todo, calls, r_result, inflight >>
  /\ UNCHANGED notResolver

NextResolver ==
  \/ IssueCall
  \/ FetchInbounds
  \/ FetchProfiles
  \/ IndexProfile
  \/ FetchUsers
  \/ ScanUser
  \/ Fallbacks
  \/ FetchProfileUsers
  \/ get_inbound_users_count
  \/ get_inbound_users_stats

SpecResolver == InitResolver /\ [][NextResolver]_vars

(* ------------------------ claims on the resolver ---------------------- *)

\* get_inbound_users has returned
Returned == r_pc \in {"returned", "done"}

\* every backend call so far gave a usable answer
AllCallsOk == \A i \in 1..Len(calls) : calls[i].ok

\* the UUIDs of the returned users
ResultUuids == {r_result[i].uuid : i \in 1..Len(r_result)}

\* the rules of the direct scan
ScanRules == {"direct", "profile_map", "on_demand"}

\* the user is in the returned list
Included(user) == user.uuid \in ResultUuids

\* the backend of the scenario: I1 and I2 listed, P1 holding I1, P2 not
ScenarioBackend ==
  /\ b_inbounds = << I1rec, I2rec >>
  /\ b_profiles = << Profile("P1", Absent), Profile(Absent, "P2") >>
  /\ b_pinb = ProfileInbounds(<< UuidRef("I1") >>, << UuidRef("I2") >>)
  /\ b_users = ScenarioUsers

\* C12 as stated: in the scenario of I1, P1 (holding I1), P2, U1 (active,
\* flat configProfileUuid = P1), U2 (active, direct reference to I1) and U3
\* (inactive, P1), with every backend call answered, the resolver returns
\* exactly the users U1 and U2.
C12_ScenarioReturnsU1U2 ==
  (Returned /\ ScenarioBackend /\ AllCallsOk) => ResultUuids = {"U1", "U2"}

\* the first truthy value of the sequence, Absent when there is none
FirstTruthy(vals) ==
  LET hits == {i \in 1..Len(vals) : vals[i] # Absent}
  IN IF hits = {} THEN Absent
     ELSE vals[CHOOSE i \in hits : \A j \in hits : i <= j]

\* the profile UUID of a user as the claim resolves it: the flat or nested
\* field of the first subscription item that supplies one, else the user's own
ClaimedProfile(user) ==
  LET items == SubscriptionItems(user)
      fromSubs == FirstTruthy([i \in 1..Len(items) |->
                                 ProfileUuidFlatFirst(items[i])])
  IN IF fromSubs # Absent THEN fromSubs ELSE ProfileUuidFlatFirst(user)

\* C13 as stated: once the scan is over, no backend call having failed, every
\* active user whose profile
\* UUID, taken from a subscription item's flat or nested field and else from
\* the user's own flat or nested field, is in the membership index is in the
\* returned list.
C13_ProfileEitherForm ==
  (Returned /\ users # << >> /\ AllCallsOk) =>
    \A k \in 1..Len(users) :
      (/\ _is_active_status(users[k].status)
       /\ ClaimedProfile(users[k]) \in index)
        => Included(users[k])

\* no user is listed twice in the list
NoDuplicates(list) ==
  \A i, j \in 1..Len(list) : list[i].uuid = list[j].uuid => i = j

\* C15 as stated: each user appears in the returned list at most once, and
\* get_inbound_users_count is the number of distinct resolved users.
C15_ResultIsASet ==
  /\ Returned => NoDuplicates(r_result)
  /\ r_out.query = "count" => r_out.count = Cardinality(ResultUuids)

\* the strategy a rule belongs to
StrategyOf(via) ==
  CASE via \in ScanRules -> "scan"
    [] via \in {"legacy_inbounds", "legacy_active"} -> "legacy"
    [] via = "tag" -> "tag"
    [] OTHER -> "profile_users"

\* the profile-users endpoint has been called
ProfileUsersCalled == \E i \in 1..Len(calls) : calls[i].ep = "profile_users"

\* C16: at every moment all users found so far were contributed by a single
\* strategy, a later strategy adding users only when the earlier ones found
\* none, and the profile-users endpoint is called only when the direct scan,
\* the legacy fields and the tag heuristic found no user.
C16_SingleStrategy ==
  /\ \A i, j \in 1..Len(inbound_users) :
       StrategyOf(inbound_users[i].via) = StrategyOf(inbound_users[j].via)
  /\ ProfileUsersCalled =>
       \A i \in 1..Len(inbound_users) : inbound_users[i].via = "profile_users"
  /\ Returned =>
       \A i, j \in 1..Len(r_result) :
         StrategyOf(r_result[i].via) = StrategyOf(r_result[j].via)

\* the direct scan found a user while another listed user matches by its
\* legacy fields and the index is not empty: no fallback ran
C16_Witness ==
  /\ Returned
  /\ r_result # << >>
  /\ \A i \in 1..Len(r_result) : r_result[i].via \in ScanRules
  /\ \E k \in 1..Len(users) :
       AnyMatch(users[k].inbounds, target, inbound_uuid)
  /\ index # {}
  /\ ~ProfileUsersCalled

\* the direct scan, the legacy fields and the tag heuristic found no user
EarlierFoundNone ==
  \A i \in 1..Len(r_result) : r_result[i].via = "profile_users"

\* the profiles whose user list was asked for, and those that answered
ProfilesAsked ==
  {calls[i].arg : i \in {k \in 1..Len(calls) : calls[k].ep = "profile_users"}}

ProfilesAnswered ==
  {calls[i].arg : i \in {k \in 1..Len(calls) :
                           calls[k].ep = "profile_users" /\ calls[k].ok}}

\* the user list of every indexed profile was asked for, and the returned
\* list is the union of the lists obtained, without duplicates
UnionOfProfileUsers ==
  /\ index \subseteq ProfilesAsked
  /\ ResultUuids =
       UNION { {ProfileUsers(p)[i].uuid : i \in 1..Len(ProfileUsers(p))} :
               p \in ProfilesAnswered }
  /\ NoDuplicates(r_result)

\* C17 as stated: whatever the users listing returns, when the direct scan,
\* the legacy fields and the tag heuristic found no user and the membership
\* index is not empty, the user list of every indexed profile is fetched and
\* their union, deduplicated by UUID, is returned.
C17_ProfileUsersWhateverUsers ==
  (Returned /\ index # {} /\ EarlierFoundNone) => UnionOfProfileUsers

\* C17 (amended): the same, for a users listing that returned a non-empty
\* list; the union is over the profile user lists that were obtained.
C17_ProfileUsersFallback ==
  (Returned /\ users # << >> /\ index # {} /\ EarlierFoundNone)
    => UnionOfProfileUsers

\* both indexed profiles answered and their lists, which share U4 and repeat
\* U5, were united
C17_Witness ==
  /\ Returned
  /\ users # << >>
  /\ index = {"P1", "P2"}
  /\ ProfilesAnswered = {"P1", "P2"}
  /\ ResultUuids = {"U1", "U4", "U5"}
  /\ Len(r_result) = 3

\* the inbound listing answered and lists the queried UUID
TargetKnown ==
  /\ Len(calls) >= 1
  /\ calls[1].ok
  /\ \E i \in 1..Len(b_inbounds) : b_inbounds[i].uuid = inbound_uuid

\* some reference of the list is, or carries, the queried UUID
UuidInList(refs) ==
  \E i \in 1..Len(refs) :
    refs[i].kind \in {"str", "dict"} /\ refs[i].uuid = inbound_uuid

\* the listed user with the given UUID
UserOf(uuid) == users[CHOOSE k \in 1..Len(users) : users[k].uuid = uuid]

\* the entry rests on no comparison of tag, port or type
ByUuidOnly(e) ==
  CASE e.via = "direct" ->
         \E i \in 1..Len(SubscriptionItems(UserOf(e.uuid))) :
           UuidInList(SubscriptionItems(UserOf(e.uuid))[i].inbounds)
    [] e.via = "on_demand" ->
         UuidInList(InboundsOfProfile(
                      ConfigProfileUuid(UserOf(e.uuid), NoTarget,
                                        inbound_uuid)))
    [] e.via = "legacy_inbounds" -> UuidInList(UserOf(e.uuid).inbounds)
    [] e.via = "legacy_active" -> UuidInList(UserOf(e.uuid).activeInbounds)
    [] e.via = "tag" -> FALSE
    [] OTHER -> TRUE

\* C18: when the inbound listing fails or does not list the queried UUID,
\* every user found by the direct scan, the on-demand check or the legacy
\* fields has a reference equal to the queried UUID, and no user is found by
\* the tag heuristic.
C18_UuidOnlyWithoutTarget ==
  (r_pc # "inbounds" /\ ~TargetKnown) =>
    \A i \in 1..Len(inbound_users) : ByUuidOnly(inbound_users[i])

\* the listing answered with an inbound that has the target's tag, port and
\* type under another UUID; the user referring to that triple was not found
C18_Witness ==
  /\ Returned
  /\ ~TargetKnown
  /\ calls[1].ok
  /\ b_inbounds = << I1twin >>
  /\ users = Listing(<< TripleOnly >>)
  /\ \A i \in 1..Len(r_result) : r_result[i].via = "profile_users"

\* the calls for a profile's inbounds made in a phase, and those that failed
InboundCalls(phase) ==
  {k \in 1..Len(calls) :
     calls[k].ep = "profile_inbounds" /\ calls[k].phase = phase}

FailedInboundCalls(phase) == {k \in InboundCalls(phase) : ~calls[k].ok}

\* the index loop is over, the profile listing having answered
IndexBuilt ==
  /\ r_pc \notin {"inbounds", "profiles", "index"}
  /\ Len(calls) >= 2
  /\ calls[2].ok

\* C19: whatever profile-inbounds fetches fail, once the index loop is over
\* every listed profile was asked for its inbounds and every profile whose
\* fetch answered with the target among its inbounds is in the index; and
\* once a non-empty users list was scanned, every active user with a direct
\* subscription reference to the target is in the returned list.
C19_ProfileFailuresSkipped ==
  /\ IndexBuilt =>
       \A k \in 1..Len(b_profiles) :
         ProfileId(b_profiles[k]) # Absent =>
           /\ \E c \in InboundCalls("index") :
                calls[c].arg = ProfileId(b_profiles[k])
           /\ (\E c \in InboundCalls("index") :
                 /\ calls[c].arg = ProfileId(b_profiles[k])
                 /\ calls[c].ok
                 /\ IndexTest(InboundsOfProfile(ProfileId(b_profiles[k])),
                              inbound_uuid) = "hit")
                => ProfileId(b_profiles[k]) \in index
  /\ (Returned /\ users # << >>) =>
       \A k \in 1..Len(users) :
         (/\ _is_active_status(users[k].status)
          /\ DirectMatch(SubscriptionItems(users[k]), target, inbound_uuid))
           => \E i \in 1..Len(r_result) :
                r_result[i].uuid = users[k].uuid /\ r_result[i].via = "direct"

\* the fetch for P1 failed while the index was built and P2 was still
\* indexed; the on-demand fetch for the first user failed after that user was
\* included, and the second user was still scanned and included
C19_Witness ==
  /\ Returned
  /\ index = {"P2"}
  /\ \E c \in FailedInboundCalls("index") : calls[c].arg = "P1"
  /\ FailedInboundCalls("scan") # {}
  /\ Len(r_result) = 2
  /\ r_result[1].uuid = "U1" /\ r_result[1].via = "direct"
  /\ r_result[2].uuid = "U2" /\ r_result[2].via = "direct"

\* the modelled status values that count as active
ActiveLike == {"ACTIVE", "active", " enabled ", "on", "<True>"}

\* the users listing gave nothing to scan
UsersListingFailed ==
  \E k \in 1..Len(calls) : calls[k].ep = "users" /\ ~calls[k].ok

\* C20: the statistics record has enabled + disabled = total, total the
\* length of the resolver's list and enabled the number of its users with an
\* active-like status; it is all zeros when the list is empty, as it is when
\* the resolver failed.
C20_StatsConsistent ==
  r_out.query = "stats" =>
    /\ r_out.enabled + r_out.disabled = r_out.total
    /\ r_out.total = Len(r_result)
    /\ r_out.enabled =
         Cardinality({i \in 1..Len(r_result) :
                        r_result[i].status \in ActiveLike})
    /\ (r_result = << >> \/ UsersListingFailed) =>
         (r_out.enabled = 0 /\ r_out.disabled = 0 /\ r_out.total = 0)

\* statistics over a list that holds a disabled user
C20_Witness ==
  /\ r_out.query = "stats"
  /\ r_out.enabled = 2
  /\ r_out.disabled = 1

(* --------------------------- the online count ------------------------- *)

\* the current time of the call, in minutes of the UTC day
Now == 600

\* the `minutes=5` of the recency window
RecentMinutes == 5

\* an `onlineAt` value: absent, not an ISO timestamp, or a timestamp text
\* with its wall-clock minutes and, when it names one, its UTC offset
NoStamp == [kind |-> "none", local |-> 0, offset |-> 0]

GarbageStamp == [kind |-> "garbage", local |-> 0, offset |-> 0]

NaiveStamp(local) == [kind |-> "naive", local |-> local, offset |-> 0]

ZuluStamp(local) == [kind |-> "z", local |-> local, offset |-> 0]

AwareStamp(local, offset) ==
  [kind |-> "aware", local |-> local, offset |-> offset]

\* no datetime
NoTime == [ok |-> FALSE, aware |-> FALSE, local |-> 0, offset |-> 0]

\* InboundAPI._parse_dt: None for a falsy or unparseable value; a trailing Z
\* is read as +00:00
_parse_dt(value) ==
  CASE value.kind \in {"none", "garbage"} -> NoTime
    [] value.kind = "naive" ->
         [ok |-> TRUE, aware |-> FALSE, local |-> value.local, offset |-> 0]
    [] value.kind = "z" ->
         [ok |-> TRUE, aware |-> TRUE, local |-> value.local, offset |-> 0]
    [] OTHER ->
         [ok |-> TRUE, aware |-> TRUE, local |-> value.local,
          offset |-> value.offset]

\* InboundAPI._is_recent: a naive datetime is given the UTC zone, then
\* `(now - ts) <= timedelta(minutes=minutes)`
_is_recent(ts, minutes) ==
  IF ~ts.ok THEN FALSE
  ELSE LET utc == IF ts.aware THEN ts.local - ts.offset ELSE ts.local
       IN (Now - utc) <= minutes

\* a user record of the listing
OnlineUser(status, onlineAt) == [status |-> status, onlineAt |-> onlineAt]

\* the `onlineAt` values of the modelled users
Stamps ==
  { NoStamp, GarbageStamp,
    NaiveStamp(Now - 2), NaiveStamp(Now - 5), NaiveStamp(Now - 10),
    NaiveStamp(Now + 10),
    ZuluStamp(Now - 2),
    AwareStamp(Now + 178, 180), AwareStamp(Now - 2, 180) }

OnlineUsers ==
  { OnlineUser(st, at) : st \in {"ACTIVE", " enabled ", "DISABLED"},
                         at \in Stamps }

\* the user lists of the modelled backends
OnlineListings ==
  { << >> } \cup { << a >> : a \in OnlineUsers }
  \cup { << a, b >> : a \in OnlineUsers, b \in OnlineUsers }

\* what get_all_users answers: a list, an object with `users`, None, or an
\* exception
UsersResponses == {"list", "dict", "none", "raise"}

\* online_count of get_inbound_online_count over a user list
OnlineCount(us) ==
  Cardinality({i \in 1..Len(us) :
                 /\ _is_active_status(us[i].status)
                 /\ _is_recent(_parse_dt(us[i].onlineAt), RecentMinutes)})

InitOnline ==
  /\ o_resp \in UsersResponses
  /\ o_users \in OnlineListings
  /\ o_pc = "idle"
  /\ o_count = 0
  /\ EngineIdle
  /\ TransportIdle
  /\ ResolverIdle
  /\ MatchIdle
  /\ NoOpIdle
  /\ UrlIdle
  /\ CookiesIdle
  /\ PollingIdle

\* InboundAPI.get_inbound_online_count
get_inbound_online_count ==
  /\ o_pc = "idle"
  /\ o_count' = IF o_resp \in {"list", "dict"} THEN OnlineCount(o_users) ELSE 0
  /\ o_pc' = "done"
  /\ UNCHANGED << o_resp, o_users >>
  /\ UNCHANGED notOnline

NextOnline == get_inbound_online_count

SpecOnline == InitOnline /\ [][NextOnline]_vars

\* the instant a timestamp text names, naive texts read as UTC
Instant(stamp) == stamp.local - stamp.offset

\* the timestamp text is an ISO timestamp
Parses(stamp) == stamp.kind \in {"naive", "z", "aware"}

\* the users counted as online by the claim: active-like, with an `onlineAt`
\* that parses to a time within the last five minutes
OnlineByWindow ==
  {i \in 1..Len(o_users) :
     /\ o_users[i].status \in ActiveLike
     /\ Parses(o_users[i].onlineAt)
     /\ Now - 5 <= Instant(o_users[i].onlineAt)
     /\ Instant(o_users[i].onlineAt) <= Now}

\* C21 as stated: the online count is the number of fetched users with an
\* active-like status whose onlineAt parses to a time t with
\* now - 5 min <= t <= now, and 0 when the listing fails or is empty.
C21_OnlineWithinWindow ==
  o_pc = "done" =>
    o_count = IF o_resp \in {"list", "dict"}
              THEN Cardinality(OnlineByWindow) ELSE 0

(* ---------------------- the unsupported mutations --------------------- *)

\* the arguments the operations are called with; "<None>" stands for None
MutationArgs == {"I1", "I2", "<None>"}

\* the operation sends its argument to the backend
IssuesRequest(op, arg) == << CallRec(op, arg, "ok", "mutation") >>

\* the backend calls made by an unsupported mutation: its body is
\* `return None`
NoRequests(op, arg) == << >>

InitNoOp ==
  /\ n_pc = "idle"
  /\ n_op = ""
  /\ n_arg \in MutationArgs
  /\ n_result = ""
  /\ inbound_uuid = ""
  /\ b_inbounds \in InboundListings
  /\ b_profiles \in ProfileListings
  /\ b_pinb \in ProfileInboundMaps
  /\ b_users \in {<< >>, ScenarioUsers}
  /\ r_pc = "idle"
  /\ r_i = 0
  /\ target = NoTarget
  /\ index = {}
  /\ users = << >>
  /\ inbound_users = << >>
  /\ seen = {}
  /\ todo = {}
  /\ calls = << >>
  /\ r_result = << >>
  /\ r_out = NoOutput
  /\ b_flaky = FALSE
  /\ b_down = {}
  /\ inflight = << >>
  /\ run = 0
  /\ returns = << >>
  /\ parked = NoInvocation
  /\ EngineIdle
  /\ TransportIdle
  /\ MatchIdle
  /\ OnlineIdle
  /\ UrlIdle
  /\ CookiesIdle
  /\ PollingIdle

\* the body shared by the four operations
Unsupported(op) ==
  /\ n_pc = "idle"
  /\ n_op' = op
  /\ n_result' = "<None>"
  /\ n_pc' = "done"
  /\ calls' = calls \o NoRequests(op, n_arg)
  /\ UNCHANGED << n_arg, backend, parked, r_pc, r_i, target, index, users,
                  inbound_users, seen, todo, r_result, r_out, inflight, run,
                  returns >>
  /\ UNCHANGED notNoOp

add_inbound_to_users == Unsupported("add_inbound_to_users")

remove_inbound_from_users == Unsupported("remove_inbound_from_users")

add_inbound_to_nodes == Unsupported("add_inbound_to_nodes")

remove_inbound_from_nodes == Unsupported("remove_inbound_from_nodes")

NextNoOp ==
  \/ add_inbound_to_users
  \/ remove_inbound_from_users
  \/ add_inbound_to_nodes
  \/ remove_inbound_from_nodes

SpecNoOp == InitNoOp /\ [][NextNoOp]_vars

\* everything but the return of the operation
AllButReturn ==
  << evars, tvars, rvars, mvars, ovars, uvars, kvars, pvars, n_arg >>

\* C22: a call of one of the four unsupported mutations returns null, makes
\* no backend call and sends no request, and changes no backend or local
\* state.
C22_MutationsAreNoOps ==
  [][n_pc' = "done" =>
       /\ n_result' = "<None>"
       /\ calls' = << >> /\ reqlog' = << >> /\ sent' = NoRequest
       /\ UNCHANGED AllButReturn]_vars

\* remove_inbound_from_nodes has returned, for a backend that has users
C22_Witness ==
  /\ n_pc = "done"
  /\ n_op = "remove_inbound_from_nodes"
  /\ n_arg = "I1"
  /\ b_users # << >>

\* C24: at every point of a resolver invocation at most one of its backend
\* calls is pending, so a call is issued only after the previous one has
\* returned, and none is pending once the invocation has returned.
C24_OneCallAtATime ==
  /\ Len(inflight) <= 1
  /\ Returned => inflight = << >>

\* the on-demand fetch of a profile's inbounds is pending after the inbound
\* list, the profile list, the per-profile fetches and the user list returned
C24_Witness ==
  /\ r_pc = "scan"
  /\ Len(inflight) = 1
  /\ inflight[1].ep = "profile_inbounds"
  /\ Len(calls) >= 5
  /\ \E i \in 1..Len(calls) : calls[i].ep = "users"

(* ------------------------- repeated resolver calls -------------------- *)

\* number of calls of get_inbound_users made in a row
MaxRuns == 2

\* the calls that a backend which is not flaky may fail to answer
DownSets ==
  { {}, {Due("users", Absent)}, {Due("profile_inbounds", "P1")},
    {Due("inbounds", Absent), Due("profile_users", "P2")} }

InitRepeat ==
  /\ inbound_uuid = TargetUuid
  /\ b_inbounds = << I1rec, I2rec >>
  /\ b_profiles \in ProfileListings
  /\ b_pinb \in ProfileInboundMaps
  /\ b_users \in UserListings
  /\ b_flaky = FALSE
  /\ b_down \in DownSets
  /\ r_pc = "inbounds"
  /\ r_i = 0
  /\ target = NoTarget
  /\ index = {}
  /\ users = << >>
  /\ inbound_users = << >>
  /\ seen = {}
  /\ todo = {}
  /\ calls = << >>
  /\ r_result = << >>
  /\ r_out = NoOutput
  /\ inflight = << >>
  /\ run = 1
  /\ returns = << >>
  /\ parked = NoInvocation
  /\ EngineIdle
  /\ TransportIdle
  /\ MatchIdle
  /\ OthersIdle

\* get_inbound_users is called again for the same inbound UUID, the backend
\* being as it was
CallAgain ==
  /\ r_pc = "returned"
  /\ run < MaxRuns
  /\ returns' = Append(returns, r_result)
  /\ run' = run + 1
  /\ r_pc' = "inbounds"
  /\ UNCHANGED << backend, parked, r_i, target, index, users, inbound_users, seen,
                  todo, calls, r_result, r_out, inflight >>
  /\ UNCHANGED notResolver

NextRepeat == NextResolver \/ CallAgain

SpecRepeat == InitRepeat /\ [][NextRepeat]_vars

\* the two lists hold the same users, each as many times
SameUsers(a, b) ==
  /\ Len(a) = Len(b)
  /\ \A u \in {a[i].uuid : i \in 1..Len(a)} \cup {b[i].uuid : i \in 1..Len(b)} :
       Cardinality({i \in 1..Len(a) : a[i].uuid = u})
         = Cardinality({i \in 1..Len(b) : b[i].uuid = u})

\* the endpoints a call of get_inbound_users asked in the given run
AskedIn(k) == {calls[i].ep : i \in {j \in 1..Len(calls) : calls[j].run = k}}

\* C23: every backend call of the resolver is a GET; against an unchanged
\* backend each call of get_inbound_users returns the users the calls before
\* it returned, and each fetched the inbounds, the profiles and the users
\* anew.
C23_ReadOnlyIdempotent ==
  /\ \A i \in 1..Len(calls) : calls[i].method = "GET"
  /\ Returned =>
       /\ \A k \in 1..Len(returns) : SameUsers(returns[k], r_result)
       /\ \A k \in 1..run : {"inbounds", "profiles", "users"} \subseteq AskedIn(k)

\* a second call has returned the two users the first call returned
C23_Witness ==
  /\ Returned
  /\ run = 2
  /\ Len(returns) = 1
  /\ Len(r_result) = 2
  /\ r_result[1].uuid # r_result[2].uuid

(* ----------------------- base URL normalization ----------------------- *)

\* most path segments of a configured URL
MaxSegments == 2

\* most trailing slashes of a configured URL
MaxSlashes == 2

\* a URL: everything before the path, the non-empty segments of the path,
\* and the number of slashes that end the path
Url(origin, segs, slashes) ==
  [kind |-> "url", origin |-> origin, segs |-> segs, slashes |-> slashes]

\* a value that is None, empty or blank
BlankValue == [kind |-> "blank", origin |-> "", segs |-> << >>, slashes |-> 0]

\* no URL computed yet
NoUrl == [kind |-> "none", origin |-> "", segs |-> << >>, slashes |-> 0]

\* the path segments of the modelled values
Segments == {"api", "API", "v1", "apis"}

\* the configured values
UrlValues ==
  {BlankValue}
  \cup { Url(o, p, n) :
           o \in {"http://host:3000", "https://panel.example"},
           p \in UNION {[1..k -> Segments] : k \in 0..MaxSegments},
           n \in 0..MaxSlashes }

\* some segment of the path is the given one
HasSegment(segs, seg) == \E i \in 1..Len(segs) : segs[i] = seg

\* /api appended unless it is the last segment
NormalizeLastSegment(value) ==
  IF value.kind = "blank" THEN Url("http://remnawave:3000", << "api" >>, 0)
  ELSE IF value.segs # << >> /\ value.segs[Len(value.segs)] = "api"
       THEN Url(value.origin, value.segs, 0)
       ELSE Url(value.origin, Append(value.segs, "api"), 0)

\* trailing slashes kept
NormalizeKeepSlashes(value) ==
  IF value.kind = "blank" THEN Url("http://remnawave:3000", << "api" >>, 0)
  ELSE IF value.segs = << >>
       THEN Url(value.origin, << "api" >>, 0)
       ELSE IF HasSegment(value.segs, "api")
            THEN Url(value.origin, value.segs, value.slashes)
            ELSE Url(value.origin, Append(value.segs, "api"), 0)

\* _normalize_api_base_url: the default for a blank value; else the path
\* loses its trailing slashes, becomes /api when empty, and gets /api
\* appended when none of its segments is `api`
_normalize_api_base_url(value) ==
  IF value.kind = "blank" THEN Url("http://remnawave:3000", << "api" >>, 0)
  ELSE IF value.segs = << >>
       THEN Url(value.origin, << "api" >>, 0)
       ELSE IF HasSegment(value.segs, "api")
            THEN Url(value.origin, value.segs, 0)
            ELSE Url(value.origin, Append(value.segs, "api"), 0)

InitUrl ==
  /\ u_pc = "idle"
  /\ u_value \in UrlValues
  /\ u_url = NoUrl
  /\ u_again = NoUrl
  /\ EngineIdle
  /\ TransportIdle
  /\ ResolverIdle
  /\ MatchIdle
  /\ OnlineIdle
  /\ NoOpIdle
  /\ CookiesIdle
  /\ PollingIdle

\* API_BASE_URL is computed, and the result normalized once more
Normalize ==
  /\ u_pc = "idle"
  /\ u_url' = _normalize_api_base_url(u_value)
  /\ u_again' = _normalize_api_base_url(_normalize_api_base_url(u_value))
  /\ u_pc' = "done"
  /\ UNCHANGED u_value
  /\ UNCHANGED notUrl

NextUrl == Normalize

SpecUrl == InitUrl /\ [][NextUrl]_vars

\* the last segment of a path, "" for the empty path
LastSegment(segs) == IF segs = << >> THEN "" ELSE segs[Len(segs)]

\* C25 as stated: for every configured base URL the normalized URL has a path
\* that ends with the segment /api and has no trailing slash.
C25_PathEndsWithApi ==
  u_pc = "done" =>
    /\ u_url.slashes = 0
    /\ LastSegment(u_url.segs) = "api"

\* C25 (amended): the normalized URL has no trailing slash and a path with a
\* segment `api`; the configured path, without its trailing slashes, is kept
\* when one of its segments is `api`, wherever it stands, and gets /api
\* appended otherwise; a blank value gives the default URL.
C25_ApiSegmentEnsured ==
  u_pc = "done" =>
    /\ u_url.slashes = 0
    /\ \E i \in 1..Len(u_url.segs) : u_url.segs[i] = "api"
    /\ u_value.kind = "blank" =>
         u_url = Url("http://remnawave:3000", << "api" >>, 0)
    /\ u_value.kind = "url" =>
         /\ u_url.origin = u_value.origin
         /\ u_url.segs =
              IF \E i \in 1..Len(u_value.segs) : u_value.segs[i] = "api"
              THEN u_value.segs
              ELSE u_value.segs \o << "api" >>

\* a path /api/v1/ is kept as /api/v1
C25_Witness ==
  /\ u_pc = "done"
  /\ u_value.segs = << "api", "v1" >>
  /\ u_value.slashes = 1
  /\ u_url.segs = << "api", "v1" >>
  /\ u_url.slashes = 0

\* C26: an empty path becomes /api, the path /api is left unchanged, the
\* path /api/ becomes /api, and normalizing the result again changes nothing.
C26_ExamplesAndIdempotence ==
  u_pc = "done" =>
    /\ (u_value.kind = "url" /\ u_value.segs = << >> /\ u_value.slashes = 0)
         => u_url = Url(u_value.origin, << "api" >>, 0)
    /\ (u_value.kind = "url" /\ u_value.segs = << "api" >>
        /\ u_value.slashes = 0)
         => u_url = u_value
    /\ (u_value.kind = "url" /\ u_value.segs = << "api" >>
        /\ u_value.slashes = 1)
         => u_url = Url(u_value.origin, << "api" >>, 0)
    /\ u_again = u_url

\* the path /api/ was normalized to /api, and again to /api
C26_Witness ==
  /\ u_pc = "done"
  /\ u_value = Url("http://host:3000", << "api" >>, 1)
  /\ u_url = Url("http://host:3000", << "api" >>, 0)
  /\ u_again = u_url

(* --------------------------- cookie loading --------------------------- *)

\* most items of a configured JSON list, most segments of a header string
MaxItems == 2

\* JSON values, each with the text str() gives for it
JNull == [t |-> "null", s |-> "None"]
JStr(text) == [t |-> "str", s |-> text]
JNum(text) == [t |-> "num", s |-> text]

\* Python truthiness of a JSON value
JTruthy(v) ==
  \/ v.t = "str" /\ v.s # ""
  \/ v.t = "num" /\ v.s # "0"

\* the values of the modelled cookies
CookieValues == {JNull, JStr(""), JStr("1"), JNum("2")}

\* the names of the modelled JSON objects
CookieNames == {"", "a", "b"}

\* the JSON objects: a map from some names to values
JsonObjects ==
  UNION { [names -> CookieValues] : names \in SUBSET CookieNames }

\* an item of a JSON list: an object with `name` and `value` (JNull when the
\* key is missing), or something that is not an object
Item(name, value) == [isdict |-> TRUE, name |-> name, value |-> value]
NotAnObject == [isdict |-> FALSE, name |-> JNull, value |-> JNull]

ListItems ==
  {NotAnObject}
  \cup { Item(n, v) : n \in {JNull, JStr(""), JStr("a"), JStr("b")},
                      v \in {JNull, JStr("1"), JNum("2")} }

\* a `;`-separated part of a header string, stripped: the text before the
\* first `=`, and the text after it
Segment(name, value) == [name |-> name, value |-> value]

HeaderSegments ==
  { Segment(n, v) : n \in {"", "a", "b"}, v \in {"", "1", "2"} }

\* the configured values of the cookies variable
RawEmpty == [kind |-> "empty"]
RawObject(entries) == [kind |-> "object", entries |-> entries]
RawList(items) == [kind |-> "list", items |-> items]
RawOther(v) == [kind |-> "other", value |-> v]
RawHeader(parts) == [kind |-> "header", parts |-> parts]

RawValues ==
  {RawEmpty}
  \cup { RawObject(o) : o \in JsonObjects }
  \cup { RawList(l) : l \in UNION {[1..k -> ListItems] : k \in 0..MaxItems} }
  \cup { RawOther(v) : v \in {JNull, JStr("a=1"), JNum("2")} }
  \cup { RawHeader(h) : h \in UNION {[1..k -> HeaderSegments] : k \in 1..MaxItems} }

\* one round of a loop that fills a dict: whether the round assigns, and the
\* name and the text it assigns
Round(keep, name, value) == [keep |-> keep, name |-> name, value |-> value]

\* the last round that assigns the name
LastIndex(rounds, name) ==
  CHOOSE i \in 1..Len(rounds) :
    /\ rounds[i].keep /\ rounds[i].name = name
    /\ \A j \in (i+1)..Len(rounds) :
         ~(rounds[j].keep /\ rounds[j].name = name)

\* the dict the rounds build with `result[name] = value`, a later assignment
\* replacing an earlier one
Assigned(rounds) ==
  [ name \in { rounds[i].name : i \in {j \in 1..Len(rounds) : rounds[j].keep} }
      |-> rounds[LastIndex(rounds, name)].value ]

\* line 18: a part is taken when both its name and its value are non-empty
SegmentKept(part) == part.name # "" /\ part.value # ""

\* _parse_cookie_header
_parse_cookie_header(parts) ==
  Assigned([i \in 1..Len(parts) |->
              Round(SegmentKept(parts[i]), parts[i].name, parts[i].value)])

\* every entry of the object is taken
EntryAny(name, value) == TRUE

\* line 33: an entry is taken when its name is non-empty and its value is
\* not null
EntryKept(name, value) == name # "" /\ value.t # "null"

\* line 40: an item is taken when it is an object, its name is truthy and
\* its value is not null
ItemKept(item) == item.isdict /\ JTruthy(item.name) /\ item.value.t # "null"

\* _load_api_cookies
_load_api_cookies(raw) ==
  CASE raw.kind = "empty" -> NoCookies
    [] raw.kind = "header" -> _parse_cookie_header(raw.parts)
    [] raw.kind = "object" ->
         [ name \in {n \in DOMAIN raw.entries : EntryKept(n, raw.entries[n])}
             |-> raw.entries[name].s ]
    [] raw.kind = "list" ->
         Assigned([i \in 1..Len(raw.items) |->
                     Round(ItemKept(raw.items[i]), raw.items[i].name.s,
                           raw.items[i].value.s)])
    [] OTHER -> NoCookies

InitCookies ==
  /\ k_pc = "idle"
  /\ k_raw \in RawValues
  /\ k_cookies = NoCookies
  /\ EngineIdle
  /\ TransportIdle
  /\ ResolverIdle
  /\ MatchIdle
  /\ OnlineIdle
  /\ NoOpIdle
  /\ UrlIdle
  /\ PollingIdle

\* API_COOKIES is computed
LoadCookies ==
  /\ k_pc = "idle"
  /\ k_cookies' = _load_api_cookies(k_raw)
  /\ k_pc' = "done"
  /\ UNCHANGED k_raw
  /\ UNCHANGED notCookies

NextCookies == LoadCookies

SpecCookies == InitCookies /\ [][NextCookies]_vars

\* the map has the entry name -> text
HasCookie(name, text) == name \in DOMAIN k_cookies /\ k_cookies[name] = text

\* every item of the list is an object with a text name
PairsOnly(items) ==
  \A i \in 1..Len(items) : items[i].isdict /\ items[i].name.t = "str"

\* C27 as stated: a JSON object gives the same name-to-value map, a JSON list
\* of {name, value} objects gives the map of those pairs, a value that is not
\* JSON gives a map with an entry for every name=value segment, and an empty
\* value gives the empty map.
C27_EveryPairLoaded ==
  k_pc = "done" =>
    /\ k_raw.kind = "empty" => k_cookies = NoCookies
    /\ k_raw.kind = "object" =>
         /\ DOMAIN k_cookies = DOMAIN k_raw.entries
         /\ \A n \in DOMAIN k_raw.entries : HasCookie(n, k_raw.entries[n].s)
    /\ (k_raw.kind = "list" /\ PairsOnly(k_raw.items)) =>
         /\ DOMAIN k_cookies =
              { k_raw.items[i].name.s : i \in 1..Len(k_raw.items) }
         /\ \A n \in DOMAIN k_cookies :
              \E i \in 1..Len(k_raw.items) :
                 /\ k_raw.items[i].name.s = n
                 /\ k_cookies[n] = k_raw.items[i].value.s
    /\ k_raw.kind = "header" =>
         \A i \in 1..Len(k_raw.parts) :
            (k_raw.parts[i].name # "" /\ k_raw.parts[i].value # "")
              => k_raw.parts[i].name \in DOMAIN k_cookies

\* C27 (amended): a JSON object gives the map of its entries with a non-empty
\* name and a value that is not null, a JSON list the map of its items that
\* are objects with a truthy name and a value that is not null, each value as
\* text and a later item replacing an earlier one of the same name; any
\* other JSON value gives the empty map; a value that is not JSON gives the
\* map of its segments with a non-empty name and a non-empty value, a later
\* one replacing an earlier one; an empty value gives the empty map.
C27_ValidPairsLoaded ==
  k_pc = "done" =>
    /\ k_raw.kind \in {"empty", "other"} => k_cookies = NoCookies
    /\ k_raw.kind = "object" =>
         /\ DOMAIN k_cookies =
              { n \in DOMAIN k_raw.entries :
                  n # "" /\ k_raw.entries[n].t # "null" }
         /\ \A n \in DOMAIN k_cookies : k_cookies[n] = k_raw.entries[n].s
    /\ k_raw.kind = "list" =>
         LET ok == { i \in 1..Len(k_raw.items) :
                       /\ k_raw.items[i].isdict
                       /\ JTruthy(k_raw.items[i].name)
                       /\ k_raw.items[i].value.t # "null" }
         IN /\ DOMAIN k_cookies = { k_raw.items[i].name.s : i \in ok }
            /\ \A i \in ok :
                 (\A j \in ok : j > i =>
                     k_raw.items[j].name.s # k_raw.items[i].name.s)
                 => HasCookie(k_raw.items[i].name.s, k_raw.items[i].value.s)
    /\ k_raw.kind = "header" =>
         LET ok == { i \in 1..Len(k_raw.parts) :
                       k_raw.parts[i].name # "" /\ k_raw.parts[i].value # "" }
         IN /\ DOMAIN k_cookies = { k_raw.parts[i].name : i \in ok }
            /\ \A i \in ok :
                 (\A j \in ok : j > i =>
                     k_raw.parts[j].name # k_raw.parts[i].name)
                 => HasCookie(k_raw.parts[i].name, k_raw.parts[i].value)

\* a JSON object with a null value and a number has been loaded: the null
\* entry is dropped and the number is kept as text
C27_Witness ==
  /\ k_pc = "done"
  /\ k_raw.kind = "object"
  /\ DOMAIN k_raw.entries = {"a", "b"}
  /\ k_raw.entries["a"] = JNull
  /\ k_raw.entries["b"] = JNum("2")
  /\ k_cookies = [n \in {"b"} |-> "2"]

(* ----------------- further claims on the resolver ----------------- *)

\* the identifiers of the listed profiles
ListedProfiles ==
  { ProfileId(b_profiles[k]) : k \in 1..Len(b_profiles) } \ {Absent}

\* the inbound list of the profile was fetched while the index was built
FetchedForIndex(p) ==
  \E c \in InboundCalls("index") : calls[c].arg = p /\ calls[c].ok

\* C28: once the membership index is built it holds exactly the listed
\* profiles, named by uuid or id, whose inbound list was fetched and holds a
\* reference to the target UUID, as a bare UUID string or as an object with
\* that uuid.
C28_IndexIsExact ==
  IndexBuilt =>
    index = { p \in ListedProfiles :
                FetchedForIndex(p) /\ UuidInList(InboundsOfProfile(p)) }


\* the user is in the returned list by a rule of the direct scan
IncludedByScan(user) ==
  \E i \in 1..Len(r_result) :
    r_result[i].uuid = user.uuid /\ r_result[i].via \in ScanRules

\* some subscription item of the user names a profile of the index
SomeItemInIndex(user) ==
  \E i \in 1..Len(SubscriptionItems(user)) :
    ProfileUuidOf(SubscriptionItems(user)[i]) \in index

\* C29: with every backend call answered, an active user of whom any one
\* subscription item has a direct reference to the target, or names a config
\* profile of the membership index, is included by the direct scan, whichever
\* item it is.
C29_EveryItemTested ==
  (Returned /\ users # << >> /\ AllCallsOk) =>
    \A k \in 1..Len(users) :
      (/\ _is_active_status(users[k].status)
       /\ \/ DirectMatch(SubscriptionItems(users[k]), target, inbound_uuid)
          \/ SomeItemInIndex(users[k]))
        => IncludedByScan(users[k])


\* C30: every user the direct scan, the legacy-field fallback or the tag
\* heuristic puts in the list has an active-like status, and a returned list
\* with a user whose status is not active-like was produced by the
\* profile-users endpoint fallback.
C30_OnlyActiveUnlessProfileUsers ==
  /\ \A i \in 1..Len(inbound_users) :
       inbound_users[i].via # "profile_users"
         => inbound_users[i].status \in ActiveLike
  /\ (/\ Returned
      /\ \E i \in 1..Len(r_result) : r_result[i].status \notin ActiveLike)
       => /\ ProfileUsersCalled
          /\ \A i \in 1..Len(r_result) : r_result[i].via = "profile_users"

\* the returned list holds a disabled user, and the scan of a listing with an
\* expired user that has a legacy reference to the target found no one: the
\* list came from the profile-users endpoint
C30_Witness ==
  /\ Returned
  /\ \E k \in 1..Len(users) :
       /\ users[k].status = "EXPIRED"
       /\ users[k].inbounds # << >>
  /\ \E i \in 1..Len(r_result) : r_result[i].status = "DISABLED"
  /\ \A i \in 1..Len(r_result) : r_result[i].via = "profile_users"


(* ------------------- further claims on the engine --------------------- *)

\* the attempt in progress is the last one of the budget
LastAttempt == pc # "idle" /\ attempt = retry_count - 1

\* C31: _make_request never sleeps after its last attempt: every sleep, the
\* wait after a failed preflight included, follows an attempt that is not the
\* last, each attempt is followed by at most one sleep, so a call with budget
\* n sleeps at most n - 1 times (never when n <= 1), and a call whose last
\* attempt fails is over with null as soon as that attempt has failed.
C31_NoSleepAfterLastAttempt ==
  /\ \A i \in 1..Len(sleeps) : sleeps[i].after < retry_count - 1
  /\ \A i, j \in 1..Len(sleeps) : sleeps[i].after = sleeps[j].after => i = j
  /\ Len(sleeps) <= Max(retry_count - 1, 0)
  /\ pc = "sleep" => attempt < retry_count - 1
  /\ (LastAttempt /\ pc \notin {"preflight", "request"}) =>
       /\ Done
       /\ wait_time = 0
       /\ ~SleptAfter(attempt)
       /\ (RetryableFailure \/ nRequests = 0) => result = None

\* a call with budget 3 whose preflight failed and whose two main requests
\* failed: two sleeps, none after the last attempt
C31_Witness ==
  /\ Done
  /\ retry_count = 3
  /\ attempt = 2
  /\ preflight_result = "failed"
  /\ reqlog = << "preflight", "main", "main" >>
  /\ RetryableFailure
  /\ Len(sleeps) = 2
  /\ sleeps[2].after = 1
  /\ result = None

\* C32: a failed preflight consumes one attempt of the budget: when attempts
\* remain the engine waits 2 seconds, and the main request is sent at most
\* maxAttempts - 1 times; with maxAttempts = 2 a failed preflight followed by
\* one retryable failure of the main request ends the call with null.
C32_FailedPreflightCostsAnAttempt ==
  preflight_result = "failed" =>
    /\ nRequests <= Max(retry_count - 1, 0)
    /\ nRequests <= attempt
    /\ retry_count > 1 => sleeps # << >> /\ sleeps[1].wait = PreflightWait
    /\ (retry_count = 2 /\ nRequests = 1 /\ RetryableFailure) =>
         /\ Done
         /\ result = None
         /\ Len(sleeps) = 1

\* budget 2: the preflight failed, the engine waited 2 seconds, the single main
\* request got a 5xx answer and the call returned null
C32_Witness ==
  /\ Done
  /\ retry_count = 2
  /\ preflight_result = "failed"
  /\ reqlog = << "preflight", "main" >>
  /\ Answered
  /\ last.response.status >= 500
  /\ sleeps = << [after |-> 0, wait |-> 2] >>
  /\ result = None


(* ------------------ two calls of the resolver at once ------------------ *)

\* a call of get_inbound_users about to start: its argument, its number and
\* its local variables
Invocation(uuid, k) ==
  [inbound_uuid |-> uuid, r_pc |-> "inbounds", r_i |-> 0, target |-> NoTarget,
   index |-> {}, users |-> << >>, inbound_users |-> << >>, seen |-> {},
   todo |-> {}, calls |-> << >>, r_result |-> << >>, inflight |-> << >>,
   run |-> k]

\* the call in progress, as it is left when the event loop runs another
Suspend ==
  [inbound_uuid |-> inbound_uuid, r_pc |-> r_pc, r_i |-> r_i,
   target |-> target, index |-> index, users |-> users,
   inbound_users |-> inbound_users, seen |-> seen, todo |-> todo,
   calls |-> calls, r_result |-> r_result, inflight |-> inflight,
   run |-> run]

\* a variable of the module, which a call finds as the other call left it
SharedWith(own, other) == other

\* `profile_uuids_for_inbound = set()` and `inbound_users = []` are variables
\* of the function: a call finds its own when it goes on
LocalTo(own, other) == own

\* the event loop goes on with the call inv
Resume(inv) ==
  /\ inbound_uuid' = inv.inbound_uuid
  /\ r_pc' = inv.r_pc
  /\ r_i' = inv.r_i
  /\ target' = inv.target
  /\ index' = LocalTo(inv.index, index)
  /\ users' = inv.users
  /\ inbound_users' = LocalTo(inv.inbound_users, inbound_users)
  /\ seen' = inv.seen
  /\ todo' = inv.todo
  /\ calls' = inv.calls
  /\ r_result' = inv.r_result
  /\ inflight' = inv.inflight
  /\ run' = inv.run

\* the user lists of the backends two calls are run against
PairListings == { Listing(<< a >>) : a \in UserShapes } \cup { ScenarioUsers }

\* the first call, for one inbound UUID, is about to run alone; the second
\* one, for the same or for another UUID, will run alone after it
InitPair ==
  /\ inbound_uuid \in {"I1", "I2"}
  /\ parked \in { Invocation(uuid, 2) : uuid \in {"I1", "I2"} }
  /\ b_inbounds = << I1rec, I2rec >>
  /\ b_profiles \in ProfileListings
  /\ b_pinb \in ProfileInboundMaps
  /\ b_users \in PairListings
  /\ b_flaky = FALSE
  /\ b_down \in DownSets
  /\ r_pc = "inbounds"
  /\ r_i = 0
  /\ target = NoTarget
  /\ index = {}
  /\ users = << >>
  /\ inbound_users = << >>
  /\ seen = {}
  /\ todo = {}
  /\ calls = << >>
  /\ r_result = << >>
  /\ r_out = NoOutput
  /\ inflight = << >>
  /\ run = 1
  /\ returns = << >>
  /\ EngineIdle
  /\ TransportIdle
  /\ MatchIdle
  /\ OthersIdle

\* a call that ran alone has returned: its list is kept, and the next call
\* starts; once both have run alone, the two are started anew as two tasks
StartNext ==
  /\ r_pc = "returned"
  /\ Len(returns) < 2
  /\ returns' = Append(returns, r_result)
  /\ Resume(parked)
  /\ parked' = Invocation(inbound_uuid, run + 2)
  /\ UNCHANGED << b_inbounds, b_profiles, b_pinb, b_users, b_flaky, b_down,
                  r_out >>
  /\ UNCHANGED notResolver

\* the two tasks interleave: the call in progress is suspended at an await,
\* or has returned, and the event loop goes on with the other one
Switch ==
  /\ Len(returns) = 2
  /\ Suspended(Len(inflight)) \/ r_pc \in {"returned", "done"}
  /\ parked.r_pc \notin {"returned", "done"}
  /\ Resume(parked)
  /\ parked' = Suspend
  /\ UNCHANGED << b_inbounds, b_profiles, b_pinb, b_users, b_flaky, b_down,
                  r_out, returns >>
  /\ UNCHANGED notResolver

NextPair == NextResolver \/ StartNext \/ Switch

SpecPair == InitPair /\ [][NextPair]_vars

\* the two calls run as tasks of one event loop
Interleaving == Len(returns) = 2

\* C33: two calls of get_inbound_users, for the same or for different inbound
\* UUIDs, whose steps interleave at their awaits against an unchanged backend
\* each return the users they return when run alone.
C33_InterleavedAsAlone ==
  Interleaving =>
    /\ Returned => SameUsers(r_result, returns[run - 2])
    /\ parked.r_pc \in {"returned", "done"}
         => SameUsers(parked.r_result, returns[parked.run - 2])

\* the first task has returned users while the second, for another inbound
\* UUID, is suspended in its scan with another index
C33_Witness ==
  /\ Interleaving
  /\ Returned
  /\ run = 3
  /\ r_result # << >>
  /\ parked.inbound_uuid # inbound_uuid
  /\ parked.r_pc = "scan"
  /\ parked.inflight # << >>
  /\ parked.index # index
  /\ parked.index # {}


(* ----------------------- the polling supervisor ----------------------- *)

\* `max_retries = 10`
max_retries == 10

\* the exceptions run_polling ends with that `except Exception` catches
PollingErrors == {"NetworkError", "TimedOut"}

\* the exceptions run_polling ends with that are no Exception
Interrupts == {"KeyboardInterrupt"}

\* how a run of application.run_polling ends
PollingOutcomes == {"returns"} \cup PollingErrors \cup Interrupts

\* the same wait after every failure
PollingWaitFlat(count) == 30

\* `wait_time = min(30 * retry_count, 300)`
PollingWait(count) == Min(30 * count, 300)

\* `if retry_count >= max_retries: raise`
GiveUp(count) == count >= max_retries

InitPolling ==
  /\ p_pc = "loop"
  /\ p_retry = 0
  /\ p_starts = 0
  /\ p_waits = << >>
  /\ p_errors = << >>
  /\ p_raised = "none"
  /\ EngineIdle
  /\ TransportIdle
  /\ ResolverIdle
  /\ MatchIdle
  /\ OnlineIdle
  /\ NoOpIdle
  /\ UrlIdle
  /\ CookiesIdle

\* `while retry_count < max_retries`: run_polling is called, or the loop ends
PollingLoop ==
  /\ p_pc = "loop"
  /\ IF p_retry < max_retries
     THEN p_pc' = "polling" /\ p_starts' = p_starts + 1
     ELSE p_pc' = "stopped" /\ p_starts' = p_starts
  /\ UNCHANGED << p_retry, p_waits, p_errors, p_raised >>
  /\ UNCHANGED notPolling

\* run_polling ends: `break` when it returns; an Exception is counted and
\* either raised again or followed by a wait; anything else leaves main()
PollingEnds ==
  /\ p_pc = "polling"
  /\ \E o \in PollingOutcomes :
       IF o = "returns"
       THEN /\ p_pc' = "stopped"
            /\ UNCHANGED << p_retry, p_waits, p_errors, p_raised >>
       ELSE IF o \in Interrupts
       THEN /\ p_pc' = "raised"
            /\ p_raised' = o
            /\ UNCHANGED << p_retry, p_waits, p_errors >>
       ELSE /\ p_retry' = p_retry + 1
            /\ p_errors' = Append(p_errors, o)
            /\ IF GiveUp(p_retry + 1)
               THEN /\ p_pc' = "raised"
                    /\ p_raised' = o
                    /\ UNCHANGED p_waits
               ELSE /\ p_pc' = "sleeping"
                    /\ p_waits' = Append(p_waits, PollingWait(p_retry + 1))
                    /\ UNCHANGED p_raised
  /\ UNCHANGED p_starts
  /\ UNCHANGED notPolling

\* time.sleep returns
PollingWake ==
  /\ p_pc = "sleeping"
  /\ p_pc' = "loop"
  /\ UNCHANGED << p_retry, p_starts, p_waits, p_errors, p_raised >>
  /\ UNCHANGED notPolling

NextPolling == PollingLoop \/ PollingEnds \/ PollingWake

SpecPolling == InitPolling /\ [][NextPolling]_vars

\* what holds of the supervisor at every moment
SupervisorBounded ==
  /\ p_starts <= 10
  /\ p_starts <= Len(p_errors) + 1
  /\ Len(p_waits) = (IF Len(p_errors) < 10 THEN Len(p_errors) ELSE 9)
  /\ \A k \in 1..Len(p_waits) :
       p_waits[k] = (IF 30 * k <= 300 THEN 30 * k ELSE 300)
  /\ p_pc = "sleeping" => Len(p_errors) < 10
  /\ Len(p_errors) = 10 =>
       /\ p_pc = "raised"
       /\ p_raised = p_errors[10]
       /\ p_starts = 10
  /\ p_pc = "stopped" => p_starts = Len(p_errors) + 1

====
